---- MODULE Spec2Model ----
(***************************************************************************)
(* Model of the VDP core of megastrife (src/src/vdp): the register file    *)
(* and its command FIFO (registers.rs), the DMA engine (dma.rs), the       *)
(* interrupt controller (interrupts.rs) and the Vdp object that owns them  *)
(* (mod.rs).  Every structure of the source is a record with the source's  *)
(* field names; every method is an operator from the old record to the new *)
(* one, and the actions apply these operators to the state variables.      *)
(*                                                                         *)
(* Not modelled: the debug counters write_count / read_count, vblank_count,*)
(* hblank_count and scanline_irq_count (unbounded, never read by the code  *)
(* paths below).                                                           *)
(***************************************************************************)
EXTENDS Integers, Sequences, FiniteSets, TLC

VARIABLES
    regs,           \* Vdp::regs        : VdpRegisters
    dma,            \* Vdp::dma         : VdpDma
    interrupts,     \* Vdp::interrupts  : VdpInterruptController
    vram,           \* Vdp::vram        : Vram  (sparse: address :> byte, zero bytes left out)
    cram,           \* Vdp::cram        : Cram  (sparse: index :> colour)
    vsram,          \* Vdp::vsram       : Vsram (sparse: word index :> word)
    vdp,            \* the scalar fields of Vdp (is_pal, frame_counter, ...)
    op,             \* name of the operation that produced this state
    ret,            \* value returned by that operation
    hist            \* observation of the run (DMA ticks, abort seen, flags raised and enabled)

vars == <<regs, dma, interrupts, vram, cram, vsram, vdp, op, ret, hist>>

\* Option<T>: None is the empty tuple, Some(x) the tuple of x
None == << >>
Some(x) == <<x>>

(***************************************************************************)
(* Bounds of the exploration.                                              *)
(***************************************************************************)
\* longest DMA length written to R19 in the explored register files
MaxDmaLen == 2
\* the pending-interrupt queue is explored up to this length
MaxPending == 3
\* the host starts to act this many cycles before the first VBlank tick
PollLead == 1
\* ticks explored after the first VBlank tick
PollTail == 1
\* cycles explored by the specifications that do not need a whole frame
MaxCycles == 3
\* words the CPU leaves in the FIFO before the first cycle
MaxPortFifo == 2
\* frames the beam is followed through
MaxFrames == 2
\* memory cells the host fills through the data port
MaxStored == 2

(***************************************************************************)
(* Machine arithmetic.                                                     *)
(***************************************************************************)
RECURSIVE BitAnd(_, _)
BitAnd(a, b) ==
    IF a = 0 \/ b = 0 THEN 0
    ELSE (a % 2) * (b % 2) + 2 * BitAnd(a \div 2, b \div 2)

RECURSIVE BitOr(_, _)
BitOr(a, b) ==
    IF a = 0 THEN b
    ELSE IF b = 0 THEN a
    ELSE (IF a % 2 = 1 \/ b % 2 = 1 THEN 1 ELSE 0) + 2 * BitOr(a \div 2, b \div 2)

Shr(a, n) == a \div (2 ^ n)
Shl(a, n) == a * (2 ^ n)
U8(x) == x % 256
U16(x) == x % 65536
\* u32 wrapping add of a word step: DMA addresses are built from at most 24
\* register bits and advance by 2 per word, so they stay below 2^31 and the
\* wrap at 2^32 is never taken.
U32(x) == IF x < 2147483647 THEN x ELSE x - 2147483647 - 2147483647 - 2

\* bitflags: insert / remove / contains on an 8-bit flag word
FlagInsert(s, f) == BitOr(s, f)
FlagRemove(s, f) == BitAnd(s, 255 - f)
FlagContains(s, f) == BitAnd(s, f) = f

(***************************************************************************)
(* registers.rs : VdpStatus bits of the register file.                     *)
(***************************************************************************)
R_VBLANK == 128
R_HBLANK == 64
R_DMA_ACTIVE == 32
R_FIFO_FULL == 16
R_FIFO_EMPTY == 8
R_LINE_IRQ == 4
R_SPRITE_OVERFLOW == 2
R_SPRITE_COLLISION == 1

\* registers.rs : DmaMode
Desativado == "Desativado"
MemoriaParaVdp == "MemoriaParaVdp"
PreenchimentoVram == "PreenchimentoVram"
CopiaVram == "CopiaVram"

\* registers.rs : VdpAccessType
VRAM == "VRAM"
CRAM == "CRAM"
VSRAM == "VSRAM"

VdpAddress(addr, access_type, read_mode) ==
    [addr |-> addr, access_type |-> access_type, read_mode |-> read_mode]

\* VdpRegisters::new
VdpRegisters_new ==
    [ regs |-> [i \in 0..23 |-> IF i = 15 THEN 2 ELSE 0],
      status |-> 0,
      data_buffer |-> 0,
      address_buffer |-> 0,
      current_address |-> VdpAddress(0, VRAM, FALSE),
      code_buffer |-> 0,
      address_latch |-> FALSE,
      dma_source |-> 0,
      dma_length |-> 0,
      dma_mode |-> Desativado,
      dma_active |-> FALSE,
      fifo |-> << >>,
      fifo_capacity |-> 4,
      auto_increment |-> 2,
      plane_a_addr |-> 49152,
      plane_b_addr |-> 57344,
      window_addr |-> 45056,
      sprite_table_addr |-> 63488,
      hscroll_addr |-> 64512,
      hblank_interrupt_enabled |-> FALSE,
      vblank_interrupt_enabled |-> FALSE,
      line_interrupt_enabled |-> FALSE,
      mode_40_cell |-> FALSE,
      interlace_mode |-> 0,
      shadow_highlight |-> FALSE ]

\* VdpRegisters::update_plane_addresses
update_plane_addresses(r) ==
    LET window_bits == BitOr(Shr(BitAnd(r.regs[3], 48), 4), U8(Shl(BitAnd(r.regs[3], 6), 1)))
    IN [r EXCEPT
          !.plane_a_addr = U16(Shl(BitAnd(r.regs[2], 56), 10)),
          !.plane_b_addr = U16(Shl(BitAnd(r.regs[4], 7), 13)),
          !.window_addr = U16(Shl(window_bits, 10)),
          !.sprite_table_addr = U16(Shl(BitAnd(r.regs[5], 127), 9)),
          !.hscroll_addr = U16(Shl(BitAnd(r.regs[13], 15), 10))]

\* VdpRegisters::process_register_change
process_register_change(r, index, old_value, new_value) ==
    IF old_value = new_value THEN r
    ELSE CASE index = 0 ->
                [r EXCEPT !.hblank_interrupt_enabled = BitAnd(new_value, 16) # 0,
                          !.line_interrupt_enabled = BitAnd(new_value, 8) # 0]
           [] index = 1 ->
                LET dma_bits == BitAnd(Shr(new_value, 6), 3)
                IN [r EXCEPT !.vblank_interrupt_enabled = BitAnd(new_value, 32) # 0,
                             !.dma_mode = CASE dma_bits = 0 -> Desativado
                                            [] dma_bits = 1 -> PreenchimentoVram
                                            [] dma_bits = 2 -> CopiaVram
                                            [] OTHER -> MemoriaParaVdp]
           [] index = 12 ->
                [r EXCEPT !.mode_40_cell = BitAnd(new_value, 1) # 0,
                          !.interlace_mode = BitAnd(Shr(new_value, 1), 3),
                          !.shadow_highlight = BitAnd(new_value, 8) # 0]
           [] index = 14 -> update_plane_addresses(r)
           [] index = 15 -> [r EXCEPT !.auto_increment = new_value]
           [] index = 16 -> update_plane_addresses(r)
           [] index = 19 ->
                [r EXCEPT !.dma_length = BitOr(BitAnd(r.dma_length, 65280), new_value)]
           [] index = 20 ->
                [r EXCEPT !.dma_length = BitOr(BitAnd(r.dma_length, 255), Shl(new_value, 8))]
           [] index = 21 ->
                [r EXCEPT !.dma_source = BitOr(BitAnd(r.dma_source, 16776960), new_value)]
           [] index = 22 ->
                [r EXCEPT !.dma_source = BitOr(BitAnd(r.dma_source, 16711935), Shl(new_value, 8))]
           [] index = 23 ->
                LET dma_mode_bits == BitAnd(Shr(new_value, 6), 3)
                IN [r EXCEPT !.dma_source = BitOr(BitAnd(r.dma_source, 65535),
                                                 Shl(BitAnd(new_value, 127), 16)),
                             !.dma_mode = CASE dma_mode_bits = 0 -> MemoriaParaVdp
                                            [] dma_mode_bits = 1 -> PreenchimentoVram
                                            [] dma_mode_bits = 2 -> CopiaVram
                                            [] OTHER -> Desativado]
           [] OTHER -> r

\* VdpRegisters::write_reg
write_reg(r, index, value) ==
    IF index >= 24 THEN r
    ELSE process_register_change([r EXCEPT !.regs[index] = value],
                                 index, r.regs[index], value)

\* VdpRegisters::read_reg
read_reg(r, index) == r.regs[index % 24]

\* VdpRegisters::dma_enabled
dma_enabled(r) == r.dma_mode # Desativado

\* VdpRegisters::has_fifo_commands
has_fifo_commands(r) == r.fifo # << >>

\* VdpRegisters::update_fifo_status
update_fifo_status(r) ==
    IF r.fifo = << >>
    THEN [r EXCEPT !.status = FlagRemove(FlagInsert(r.status, R_FIFO_EMPTY), R_FIFO_FULL)]
    ELSE IF Len(r.fifo) >= r.fifo_capacity
    THEN [r EXCEPT !.status = FlagRemove(FlagInsert(r.status, R_FIFO_FULL), R_FIFO_EMPTY)]
    ELSE [r EXCEPT !.status = FlagRemove(r.status, R_FIFO_EMPTY + R_FIFO_FULL)]

\* VdpRegisters::process_dma_write
process_dma_write(r, value) ==
    IF r.dma_mode = Desativado THEN r
    ELSE LET r1 == [r EXCEPT
                      !.data_buffer = value,
                      !.dma_length = U16(r.dma_length + 65535),
                      !.dma_source = IF r.dma_mode = MemoriaParaVdp
                                     THEN U32(r.dma_source + 2) ELSE r.dma_source]
         IN IF r1.dma_length = 0
            THEN [r1 EXCEPT !.dma_active = FALSE,
                            !.status = FlagRemove(r1.status, R_DMA_ACTIVE),
                            !.dma_mode = Desativado]
            ELSE r1

\* a plausible slip: the push is not guarded by the capacity test
write_data_port_unguarded(r, value) ==
    LET r1 == [r EXCEPT !.data_buffer = value]
    IN IF r1.dma_active THEN process_dma_write(r1, value)
       ELSE update_fifo_status([r1 EXCEPT !.fifo = Append(r1.fifo, value)])

\* VdpRegisters::write_data_port
write_data_port(r, value) ==
    LET r1 == [r EXCEPT !.data_buffer = value]
    IN IF r1.dma_active THEN process_dma_write(r1, value)
       ELSE update_fifo_status(
              IF Len(r1.fifo) < r1.fifo_capacity
              THEN [r1 EXCEPT !.fifo = Append(r1.fifo, value)]
              ELSE [r1 EXCEPT !.status = FlagInsert(r1.status, R_FIFO_FULL)])

\* VdpRegisters::increment_address
increment_address(r) ==
    LET next == U16(r.current_address.addr + r.auto_increment)
    IN [r EXCEPT !.current_address.addr =
          IF r.current_address.access_type = VRAM THEN BitAnd(next, 16383)
          ELSE BitAnd(next, 63)]

\* VdpRegisters::read_data_port (the new register file, then the value returned)
read_data_port(r) == IF r.current_address.read_mode THEN increment_address(r) ELSE r
read_data_port_result(r) == r.data_buffer

\* VdpRegisters::prepare_for_write
prepare_for_write(r) ==
    LET r1 == [r EXCEPT !.data_buffer = 0]
    IN IF r1.dma_mode # Desativado
       THEN [r1 EXCEPT !.dma_active = TRUE,
                       !.status = FlagInsert(r1.status, R_DMA_ACTIVE)]
       ELSE r1

\* VdpRegisters::process_control_word
process_control_word(r) ==
    LET code == r.code_buffer
        addr == r.address_buffer
        sel == BitAnd(Shr(code, 6), 3)
        access_type == CASE sel = 0 -> VRAM
                         [] sel = 1 -> CRAM
                         [] sel = 2 -> VSRAM
                         [] OTHER -> VRAM
        read_mode == BitAnd(code, 64) # 0
        r1 == [r EXCEPT !.current_address =
                 VdpAddress(BitAnd(addr, 16383), access_type, read_mode)]
    IN IF ~read_mode THEN prepare_for_write(r1) ELSE r1

\* a plausible slip: the control word is decoded on the first write of a
\* pair as well
write_control_port_commits_early(r, value) ==
    IF r.address_latch
    THEN [process_control_word(
            [r EXCEPT !.address_buffer =
               BitOr(BitAnd(r.address_buffer, 65280), BitAnd(value, 255))])
          EXCEPT !.address_latch = FALSE]
    ELSE [process_control_word(
            [r EXCEPT !.address_buffer = Shl(BitAnd(value, 255), 8),
                      !.code_buffer = U8(Shr(value, 8))])
          EXCEPT !.address_latch = TRUE]

\* VdpRegisters::write_control_port
write_control_port(r, value) ==
    IF r.address_latch
    THEN [process_control_word(
            [r EXCEPT !.address_buffer =
               BitOr(BitAnd(r.address_buffer, 65280), BitAnd(value, 255))])
          EXCEPT !.address_latch = FALSE]
    ELSE [r EXCEPT !.address_buffer = Shl(BitAnd(value, 255), 8),
                   !.code_buffer = U8(Shr(value, 8)),
                   !.address_latch = TRUE]

\* VdpRegisters::read_control_port (the new register file, then the value returned)
read_control_port(r) ==
    [r EXCEPT !.status = FlagRemove(r.status, R_VBLANK + R_HBLANK + R_LINE_IRQ)]
read_control_port_result(r) == r.status

\* VdpRegisters::pop_fifo : Vec::pop removes the LAST element of the vector
pop_fifo(r) ==
    update_fifo_status(
      IF r.fifo = << >> THEN r
      ELSE [r EXCEPT !.fifo = SubSeq(r.fifo, 1, Len(r.fifo) - 1)])
pop_fifo_result(r) == IF r.fifo = << >> THEN None ELSE Some(r.fifo[Len(r.fifo)])

\* VdpRegisters::update_interrupt_flags
update_interrupt_flags(r, vblank, hblank, line_irq) ==
    LET s1 == IF vblank THEN FlagInsert(r.status, R_VBLANK) ELSE FlagRemove(r.status, R_VBLANK)
        s2 == IF hblank THEN FlagInsert(s1, R_HBLANK) ELSE FlagRemove(s1, R_HBLANK)
        s3 == IF line_irq THEN FlagInsert(s2, R_LINE_IRQ) ELSE FlagRemove(s2, R_LINE_IRQ)
    IN [r EXCEPT !.status = s3]

\* VdpRegisters::update_sprite_flags
update_sprite_flags(r, overflow, collision) ==
    LET s1 == IF overflow THEN FlagInsert(r.status, R_SPRITE_OVERFLOW)
              ELSE FlagRemove(r.status, R_SPRITE_OVERFLOW)
        s2 == IF collision THEN FlagInsert(s1, R_SPRITE_COLLISION)
              ELSE FlagRemove(s1, R_SPRITE_COLLISION)
    IN [r EXCEPT !.status = s2]

\* VdpRegisters::reset
VdpRegisters_reset(r) ==
    LET r1 == [r EXCEPT
                 !.regs = [i \in 0..23 |-> 0],
                 !.status = 0,
                 !.data_buffer = 0,
                 !.address_buffer = 0,
                 !.current_address = VdpAddress(0, VRAM, FALSE),
                 !.code_buffer = 0,
                 !.address_latch = FALSE,
                 !.dma_source = 0,
                 !.dma_length = 0,
                 !.dma_mode = Desativado,
                 !.dma_active = FALSE,
                 !.fifo = << >>,
                 !.auto_increment = 2]
        r2 == update_plane_addresses(r1)
    IN [r2 EXCEPT
          !.hblank_interrupt_enabled = FALSE,
          !.vblank_interrupt_enabled = FALSE,
          !.line_interrupt_enabled = FALSE,
          !.mode_40_cell = FALSE,
          !.interlace_mode = 0,
          !.shadow_highlight = FALSE,
          !.regs[15] = 2]

(***************************************************************************)
(* Accessors of VdpRegisters that dma.rs, interrupts.rs and video_modes.rs *)
(* call but registers.rs does not define.                                  *)
(***************************************************************************)
regs_get(r, index) == r.regs[index]
dma_in_progress(r) == r.dma_active
fifo_empty(r) == r.fifo = << >>
fifo_full(r) == Len(r.fifo) >= r.fifo_capacity

(***************************************************************************)
(* vram.rs, cram.rs, vsram.rs : storage.  A memory is kept as the function *)
(* from the cells that hold a non-zero value to that value, so that equal  *)
(* memories are equal values.                                              *)
(***************************************************************************)
MemEmpty == [a \in {} |-> 0]
MemGet(m, a) == IF a \in DOMAIN m THEN m[a] ELSE 0
MemSet(m, a, v) ==
    IF v = 0 THEN [x \in (DOMAIN m) \ {a} |-> m[x]]
    ELSE [x \in (DOMAIN m) \cup {a} |-> IF x = a THEN v ELSE m[x]]

\* Vram::SIZE_64K
SIZE_64K == 65536

\* Vram::new
Vram_new == MemEmpty

\* Vram::read8 / Vram::write8
Vram_read8(m, addr) == IF addr < SIZE_64K THEN MemGet(m, addr) ELSE 0
Vram_write8(m, addr, value) == IF addr < SIZE_64K THEN MemSet(m, addr, value) ELSE m

\* Vram::read16 / Vram::write16 (little-endian)
Vram_read16(m, addr) == BitOr(Shl(Vram_read8(m, addr + 1), 8), Vram_read8(m, addr))
Vram_write16(m, addr, value) ==
    Vram_write8(Vram_write8(m, addr, BitAnd(value, 255)), addr + 1, Shr(value, 8))

\* Cram::new
Cram_new == MemEmpty

\* Cram::write / Cram::read
Cram_write(m, index, value) == IF index < 64 THEN MemSet(m, index, BitAnd(value, 3822)) ELSE m
Cram_read(m, index) == MemGet(m, index % 64)

\* vsram.rs : VSRAM_SIZE_BYTES
VSRAM_SIZE_BYTES == 80

ToI16(x) == IF x >= 32768 THEN x - 65536 ELSE x

\* Vsram::new
Vsram_new ==
    [ data |-> MemEmpty,
      plane_a_scroll |-> 0,
      plane_b_scroll |-> 0,
      split_line |-> 0,
      split_scroll_a |-> 0,
      split_scroll_b |-> 0,
      scroll_mode |-> "Global",
      line_scroll_enabled |-> FALSE,
      column_scroll_enabled |-> FALSE ]

\* Vsram::update_scroll_from_data
update_scroll_from_data(v) ==
    [v EXCEPT !.plane_a_scroll = ToI16(MemGet(v.data, 0)),
              !.plane_b_scroll = ToI16(MemGet(v.data, 1)),
              !.split_line = MemGet(v.data, 2),
              !.split_scroll_a = ToI16(MemGet(v.data, 3)),
              !.split_scroll_b = ToI16(MemGet(v.data, 4))]

\* Vsram::write16 / Vsram::read16
Vsram_write16(v, addr, value) ==
    IF addr >= VSRAM_SIZE_BYTES THEN v
    ELSE update_scroll_from_data([v EXCEPT !.data = MemSet(v.data, Shr(addr, 1), value)])
Vsram_read16(v, addr) == IF addr >= VSRAM_SIZE_BYTES THEN 0 ELSE MemGet(v.data, Shr(addr, 1))

\* Vsram::clear
Vsram_clear(v) ==
    [v EXCEPT !.data = MemEmpty,
              !.plane_a_scroll = 0,
              !.plane_b_scroll = 0,
              !.split_line = 0,
              !.split_scroll_a = 0,
              !.split_scroll_b = 0,
              !.scroll_mode = "Global"]

(***************************************************************************)
(* memory/bus.rs : what the DMA engine reads from the 68K side.  ext is    *)
(* the byte a mapped device (Z80 RAM, VDP port, work RAM) would answer;    *)
(* every other address reads 0.                                            *)
(***************************************************************************)
Bus_read8(ext, addr) ==
    IF \/ (addr >= 10485760 /\ addr <= 10551295)
       \/ (addr >= 12582912 /\ addr <= 12582943)
       \/ (addr >= 16711680 /\ addr <= 16777215)
    THEN ext ELSE 0
Bus_read16(ext, addr) == BitOr(Shl(Bus_read8(ext, addr + 1), 8), Bus_read8(ext, addr))

(***************************************************************************)
(* dma.rs : the DMA engine.                                                *)
(***************************************************************************)
MemoryToVdp == "MemoryToVdp"
VramFill == "VramFill"
VramCopy == "VramCopy"
Inactive == "Inactive"

\* VdpDma::new
VdpDma_new ==
    [ mode |-> Inactive,
      source_addr |-> 0,
      dest_addr |-> 0,
      length |-> 0,
      words_remaining |-> 0,
      active |-> FALSE,
      fill_data |-> 0,
      copy_source |-> 0,
      cycles_until_transfer |-> 0,
      words_per_cycle |-> 1 ]

\* VdpDma::setup_from_registers (the new engine, then the value returned)
setup_from_registers(d, r, vram_addr) ==
    IF ~dma_enabled(r) THEN [d EXCEPT !.active = FALSE]
    ELSE
      LET mode_bits == BitAnd(Shr(regs_get(r, 23), 6), 3)
          mode == CASE mode_bits = 0 -> MemoryToVdp
                    [] mode_bits = 1 -> VramFill
                    [] mode_bits = 2 -> VramCopy
                    [] OTHER -> Inactive
          d1 == [d EXCEPT !.mode = mode]
      IN IF mode = Inactive THEN [d1 EXCEPT !.active = FALSE]
         ELSE
           LET d2 == [d1 EXCEPT !.dest_addr = BitAnd(vram_addr, 16383),
                                !.length = r.dma_length,
                                !.words_remaining = r.dma_length]
               source_low == regs_get(r, 21)
               source_high == regs_get(r, 22)
               source_bank == Shr(BitAnd(regs_get(r, 23), 128), 7)
               d3 == CASE mode = MemoryToVdp ->
                            [d2 EXCEPT !.source_addr =
                               2 * ((Shl(source_bank, 16) + Shl(source_high, 8) + source_low) \div 2)]
                        [] mode = VramFill ->
                            [d2 EXCEPT !.fill_data = BitOr(Shl(regs_get(r, 21), 8), regs_get(r, 21)),
                                       !.source_addr = 0]
                        [] OTHER ->
                            [d2 EXCEPT !.copy_source =
                               2 * ((Shl(BitAnd(source_high, 63), 8) + source_low) \div 2)]
           IN [d3 EXCEPT !.cycles_until_transfer = 0,
                         !.words_per_cycle = 1,
                         !.active = TRUE]
setup_from_registers_result(d, r, vram_addr) ==
    dma_enabled(r) /\ BitAnd(Shr(regs_get(r, 23), 6), 3) # 3

\* the engine and the three memories it writes, as one value
DmaWorld(d, vr, cr, vs, completed) ==
    [dma |-> d, vram |-> vr, cram |-> cr, vsram |-> vs, completed |-> completed]

\* a plausible slip: the counter wraps instead of saturating and the
\* completion test is left out
execute_transfer_no_completion(d, ext, vr, cr, vs) ==
    DmaWorld([d EXCEPT !.dest_addr = U32(d.dest_addr + 2),
                       !.words_remaining = U16(d.words_remaining + 65535)],
             vr, cr, vs, FALSE)

\* VdpDma::execute_transfer
execute_transfer(d, ext, vr, cr, vs) ==
    LET dest_type == BitAnd(Shr(d.dest_addr, 14), 3)
        dest_addr_word == Shr(BitAnd(d.dest_addr, 16383), 1)
        data == Bus_read16(ext, d.source_addr)
        w == CASE d.mode = MemoryToVdp ->
                    DmaWorld([d EXCEPT !.source_addr = U32(d.source_addr + 2)],
                             IF dest_type = 0 \/ dest_type = 3
                             THEN Vram_write16(vr, d.dest_addr, data) ELSE vr,
                             IF dest_type = 1 /\ dest_addr_word < 64
                             THEN Cram_write(cr, dest_addr_word, BitAnd(data, 3822)) ELSE cr,
                             IF dest_type = 2 /\ dest_addr_word < 40
                             THEN Vsram_write16(vs, d.dest_addr, data) ELSE vs,
                             FALSE)
               [] d.mode = VramFill ->
                    DmaWorld(d,
                             IF dest_type = 0 THEN Vram_write16(vr, d.dest_addr, d.fill_data) ELSE vr,
                             cr, vs, FALSE)
               [] d.mode = VramCopy ->
                    DmaWorld([d EXCEPT !.copy_source = U32(d.copy_source + 2)],
                             Vram_write16(vr, d.dest_addr, Vram_read16(vr, d.copy_source)),
                             cr, vs, FALSE)
               [] OTHER -> DmaWorld(d, vr, cr, vs, TRUE)
    IN IF d.mode = Inactive THEN w
       ELSE LET remaining == IF w.dma.words_remaining = 0 THEN 0
                             ELSE w.dma.words_remaining - 1
                d1 == [w.dma EXCEPT !.dest_addr = U32(w.dma.dest_addr + 2),
                                    !.words_remaining = remaining]
            IN IF remaining = 0
               THEN [w EXCEPT !.dma = [d1 EXCEPT !.active = FALSE, !.mode = Inactive],
                              !.completed = TRUE]
               ELSE [w EXCEPT !.dma = d1]

\* a plausible slip: the wait before the next word is words_per_cycle, not
\* words_per_cycle - 1, so every other tick is spent waiting
VdpDma_tick_waits(d, ext, vr, cr, vs) ==
    IF ~d.active \/ d.words_remaining = 0
    THEN DmaWorld([d EXCEPT !.active = FALSE, !.mode = Inactive], vr, cr, vs, TRUE)
    ELSE IF d.cycles_until_transfer > 0
    THEN DmaWorld([d EXCEPT !.cycles_until_transfer = d.cycles_until_transfer - 1],
                  vr, cr, vs, FALSE)
    ELSE LET w == execute_transfer(d, ext, vr, cr, vs)
         IN [w EXCEPT !.dma.cycles_until_transfer = w.dma.words_per_cycle]

\* VdpDma::tick
VdpDma_tick(d, ext, vr, cr, vs) ==
    IF ~d.active \/ d.words_remaining = 0
    THEN DmaWorld([d EXCEPT !.active = FALSE, !.mode = Inactive], vr, cr, vs, TRUE)
    ELSE IF d.cycles_until_transfer > 0
    THEN DmaWorld([d EXCEPT !.cycles_until_transfer = d.cycles_until_transfer - 1],
                  vr, cr, vs, FALSE)
    ELSE LET w == execute_transfer(d, ext, vr, cr, vs)
         IN [w EXCEPT !.dma.cycles_until_transfer =
               IF w.dma.words_per_cycle = 0 THEN 0 ELSE w.dma.words_per_cycle - 1]

\* a plausible slip: abort forgets to clear the counter and the mode
abort_keeps_counter(d) == [d EXCEPT !.active = FALSE]

\* VdpDma::abort
abort(d) == [d EXCEPT !.active = FALSE, !.mode = Inactive, !.words_remaining = 0]

\* VdpDma::is_active
is_active(d) == d.active

(***************************************************************************)
(* interrupts.rs : the interrupt controller.                               *)
(***************************************************************************)
\* interrupts.rs : VdpStatus bits of the controller
I_VBLANK == 128
I_HBLANK == 64
I_SPRITE_OVERFLOW == 32
I_SPRITE_COLLISION == 16
I_SCANLINE_IRQ == 8
I_DMA_IN_PROGRESS == 4
I_FIFO_EMPTY == 2
I_FIFO_FULL == 1

\* interrupts.rs : VdpInterruptType
VBlank == "VBlank"
HBlank == "HBlank"
Scanline == "Scanline"
SpriteOverflow == "SpriteOverflow"
SpriteCollision == "SpriteCollision"
DmaComplete == "DmaComplete"

\* interrupts.rs : PendingInterrupt
PendingInterrupt(irq_type, timestamp, priority) ==
    [irq_type |-> irq_type, timestamp |-> timestamp, priority |-> priority]

\* VdpInterruptController::new
VdpInterruptController_new ==
    [ status |-> 0,
      enabled |-> 0,
      pending |-> << >>,
      h_counter |-> 0,
      v_counter |-> 0,
      cycle_counter |-> 0,
      h_blank_start |-> 320,
      v_blank_start |-> 224,
      scanline_irq_line |-> 0,
      sprite_overflow_line |-> None,
      sprite_collision_detected |-> FALSE,
      is_pal |-> FALSE,
      is_interlaced |-> FALSE ]

\* VdpInterruptController::set_video_mode
set_video_mode(i, is_pal) ==
    [i EXCEPT !.is_pal = is_pal,
              !.v_blank_start = IF is_pal THEN 240 ELSE 224]

\* VdpInterruptController::total_lines
total_lines(i) == IF i.is_pal THEN 313 ELSE 262

\* VdpInterruptController::cycles_per_line
cycles_per_line(i) == IF i.is_pal THEN 454 ELSE 342

\* VdpInterruptController::update_from_registers
update_from_registers(i, r) ==
    LET e1 == IF BitAnd(regs_get(r, 0), 16) # 0 THEN FlagInsert(0, I_HBLANK) ELSE 0
        e2 == IF BitAnd(regs_get(r, 1), 32) # 0 THEN FlagInsert(e1, I_VBLANK) ELSE e1
        e3 == IF BitAnd(regs_get(r, 0), 8) # 0 THEN FlagInsert(e2, I_SCANLINE_IRQ) ELSE e2
        mode == BitAnd(regs_get(r, 12), 3)
    IN [i EXCEPT !.enabled = e3,
                 !.scanline_irq_line = regs_get(r, 10),
                 !.is_interlaced = (mode = 2) \/ (mode = 3),
                 !.h_blank_start = IF BitAnd(Shr(regs_get(r, 12), 4), 1) = 1 THEN 256 ELSE 320]

\* Vec::insert
InsertAt(q, pos, e) == SubSeq(q, 1, pos - 1) \o <<e>> \o SubSeq(q, pos, Len(q))

\* a plausible slip: a new event is placed in front of the pending events of
\* its own priority
queue_interrupt_ties_first(i, irq_type, priority) ==
    LET hits == {k \in 1..Len(i.pending) : i.pending[k].priority >= priority}
        pos == IF hits = {} THEN Len(i.pending) + 1
               ELSE CHOOSE k \in hits : \A j \in hits : k <= j
    IN [i EXCEPT !.pending =
          InsertAt(i.pending, pos, PendingInterrupt(irq_type, i.cycle_counter, priority))]

\* a plausible slip: a new event is appended, whatever its priority
queue_interrupt_append(i, irq_type, priority) ==
    [i EXCEPT !.pending =
       Append(i.pending, PendingInterrupt(irq_type, i.cycle_counter, priority))]

\* VdpInterruptController::queue_interrupt
queue_interrupt(i, irq_type, priority) ==
    LET hits == {k \in 1..Len(i.pending) :
                    \/ i.pending[k].priority > priority
                    \/ (i.pending[k].priority = priority
                        /\ i.pending[k].timestamp > i.cycle_counter)}
        pos == IF hits = {} THEN Len(i.pending) + 1
               ELSE CHOOSE k \in hits : \A j \in hits : k <= j
    IN [i EXCEPT !.pending =
          InsertAt(i.pending, pos, PendingInterrupt(irq_type, i.cycle_counter, priority))]

\* VdpInterruptController::end_of_line
end_of_line(i) ==
    IF FlagContains(i.status, I_HBLANK)
    THEN [i EXCEPT !.status = FlagRemove(i.status, I_HBLANK)] ELSE i

\* VdpInterruptController::end_of_frame
end_of_frame(i) ==
    LET s1 == IF FlagContains(i.status, I_SPRITE_COLLISION)
              THEN FlagRemove(i.status, I_SPRITE_COLLISION) ELSE i.status
        s2 == IF FlagContains(s1, I_SPRITE_OVERFLOW)
              THEN FlagRemove(s1, I_SPRITE_OVERFLOW) ELSE s1
    IN [i EXCEPT !.sprite_collision_detected = FALSE, !.status = s2]

\* a plausible slip: the HBlank event is queued whether or not the
\* interrupt is enabled
check_hblank_unguarded(i) ==
    IF i.h_counter = i.h_blank_start
    THEN queue_interrupt([i EXCEPT !.status = FlagInsert(i.status, I_HBLANK)], HBlank, 1)
    ELSE i

\* VdpInterruptController::check_hblank
check_hblank(i) ==
    IF i.h_counter = i.h_blank_start /\ FlagContains(i.enabled, I_HBLANK)
    THEN queue_interrupt([i EXCEPT !.status = FlagInsert(i.status, I_HBLANK)], HBlank, 1)
    ELSE i

\* a plausible slip: VBlank is raised on every cycle of the first blanked
\* line
check_vblank_whole_line(i) ==
    IF i.v_counter = i.v_blank_start /\ FlagContains(i.enabled, I_VBLANK)
    THEN queue_interrupt([i EXCEPT !.status = FlagInsert(i.status, I_VBLANK)], VBlank, 0)
    ELSE i

\* VdpInterruptController::check_vblank
check_vblank(i) ==
    IF i.v_counter = i.v_blank_start /\ i.h_counter = 0 /\ FlagContains(i.enabled, I_VBLANK)
    THEN queue_interrupt([i EXCEPT !.status = FlagInsert(i.status, I_VBLANK)], VBlank, 0)
    ELSE i

\* a plausible slip: the line is not doubled in interlaced mode
check_scanline_irq_not_doubled(i) ==
    IF FlagContains(i.enabled, I_SCANLINE_IRQ) /\ i.v_counter = i.scanline_irq_line
    THEN queue_interrupt([i EXCEPT !.status = FlagInsert(i.status, I_SCANLINE_IRQ)],
                         Scanline, 2)
    ELSE i

\* VdpInterruptController::check_scanline_irq
check_scanline_irq(i) ==
    IF FlagContains(i.enabled, I_SCANLINE_IRQ)
    THEN LET current_line ==
               IF i.is_interlaced
               THEN U16(i.v_counter * 2) + (IF i.v_counter >= total_lines(i) \div 2 THEN 1 ELSE 0)
               ELSE i.v_counter
         IN IF current_line = i.scanline_irq_line
            THEN queue_interrupt([i EXCEPT !.status = FlagInsert(i.status, I_SCANLINE_IRQ)],
                                 Scanline, 2)
            ELSE i
    ELSE i

\* VdpInterruptController::update_dma_status
update_dma_status(i, r) ==
    IF dma_enabled(r) /\ dma_in_progress(r)
    THEN [i EXCEPT !.status = FlagInsert(i.status, I_DMA_IN_PROGRESS)]
    ELSE [i EXCEPT !.status = FlagRemove(i.status, I_DMA_IN_PROGRESS)]

\* VdpInterruptController::update_fifo_status
Irq_update_fifo_status(i, r) ==
    IF fifo_empty(r)
    THEN [i EXCEPT !.status = FlagRemove(FlagInsert(i.status, I_FIFO_EMPTY), I_FIFO_FULL)]
    ELSE IF fifo_full(r)
    THEN [i EXCEPT !.status = FlagRemove(FlagInsert(i.status, I_FIFO_FULL), I_FIFO_EMPTY)]
    ELSE [i EXCEPT !.status = FlagRemove(i.status, I_FIFO_EMPTY + I_FIFO_FULL)]

\* VdpInterruptController::tick
Irq_tick(i, r) ==
    LET i1 == [i EXCEPT !.cycle_counter = i.cycle_counter + 1,
                        !.h_counter = i.h_counter + 1]
        i2 == IF i1.h_counter >= cycles_per_line(i1)
              THEN LET a == end_of_line([i1 EXCEPT !.h_counter = 0])
                       b == [a EXCEPT !.v_counter = a.v_counter + 1]
                       c == IF b.v_counter >= total_lines(b)
                            THEN end_of_frame([b EXCEPT !.v_counter = 0])
                            ELSE b
                       d == check_scanline_irq(c)
                   IN [d EXCEPT !.sprite_overflow_line = None]
              ELSE i1
    IN Irq_update_fifo_status(update_dma_status(check_vblank(check_hblank(i2)), r), r)

\* VdpInterruptController::signal_sprite_overflow
signal_sprite_overflow(i, line) ==
    IF i.sprite_overflow_line = None
    THEN queue_interrupt([i EXCEPT !.sprite_overflow_line = Some(line),
                                   !.status = FlagInsert(i.status, I_SPRITE_OVERFLOW)],
                         SpriteOverflow, 3)
    ELSE i

\* VdpInterruptController::signal_sprite_collision
signal_sprite_collision(i) ==
    IF ~i.sprite_collision_detected
    THEN queue_interrupt([i EXCEPT !.sprite_collision_detected = TRUE,
                                   !.status = FlagInsert(i.status, I_SPRITE_COLLISION)],
                         SpriteCollision, 4)
    ELSE i

\* VdpInterruptController::signal_dma_complete
signal_dma_complete(i) == queue_interrupt(i, DmaComplete, 5)

\* a plausible slip: the read clears every flag
read_status_clears_all(i) == [i EXCEPT !.status = 0]

\* a plausible slip: reading the status acknowledges the pending events
read_status_acknowledges(i) ==
    [i EXCEPT !.status = FlagRemove(i.status, I_VBLANK + I_HBLANK + I_SCANLINE_IRQ),
              !.pending = << >>]


\* VdpInterruptController::read_status (the new controller, then the value returned)
read_status(i) ==
    [i EXCEPT !.status = FlagRemove(i.status, I_VBLANK + I_HBLANK + I_SCANLINE_IRQ)]
read_status_result(i) == i.status

\* VdpInterruptController::has_interrupt
has_interrupt(i) == i.pending # << >>

\* a plausible slip: taking an event off the queue acknowledges it, clearing
\* the sprite flag it was raised with
pop_interrupt_acknowledges(i) ==
    IF i.pending # << >>
    THEN [i EXCEPT !.pending = Tail(i.pending),
                   !.status =
                      IF Head(i.pending).irq_type = SpriteOverflow
                      THEN FlagRemove(i.status, I_SPRITE_OVERFLOW)
                      ELSE IF Head(i.pending).irq_type = SpriteCollision
                      THEN FlagRemove(i.status, I_SPRITE_COLLISION)
                      ELSE i.status]
    ELSE i


\* VdpInterruptController::pop_interrupt (the new controller, then the value returned)
pop_interrupt(i) ==
    IF i.pending # << >> THEN [i EXCEPT !.pending = Tail(i.pending)] ELSE i
pop_interrupt_result(i) == IF i.pending # << >> THEN Some(Head(i.pending)) ELSE None

\* VdpInterruptController::clear_interrupts
clear_interrupts(i, irq_type) ==
    [i EXCEPT !.pending = SelectSeq(i.pending, LAMBDA e : e.irq_type # irq_type)]

\* a plausible slip: the pending queue is not cleared
Irq_reset_keeps_pending(i) ==
    [i EXCEPT !.status = 0,
              !.enabled = 0,
              !.h_counter = 0,
              !.v_counter = 0,
              !.cycle_counter = 0,
              !.sprite_overflow_line = None,
              !.sprite_collision_detected = FALSE]

\* VdpInterruptController::reset
Irq_reset(i) ==
    [i EXCEPT !.status = 0,
              !.enabled = 0,
              !.pending = << >>,
              !.h_counter = 0,
              !.v_counter = 0,
              !.cycle_counter = 0,
              !.sprite_overflow_line = None,
              !.sprite_collision_detected = FALSE]

\* VdpInterruptController::in_vblank / in_hblank
in_vblank(i) == i.v_counter >= i.v_blank_start
in_hblank(i) == i.h_counter >= i.h_blank_start

(***************************************************************************)
(* sprite.rs : what the start of VBlank needs of the sprite engine.        *)
(***************************************************************************)
MAX_SPRITES_PER_FRAME == 80
MAX_SPRITES_PER_LINE == 20
SPRITE_ENTRY_SIZE == 8
TILE_SIZE == 8

WrapI16(x) == ToI16((x + 65536) % 65536)

\* Sprite::from_bytes ; data is the sequence of the 8 bytes of a SAT entry
from_bytes(data, high_color_mode) ==
    LET y_raw == BitOr(Shl(data[1], 8), data[2])
        size_link == BitOr(Shl(data[3], 8), data[4])
        x_raw == BitOr(Shl(data[5], 8), data[6])
        attributes == BitOr(Shl(data[7], 8), data[8])
        y0 == IF BitAnd(y_raw, 256) # 0 THEN ToI16(BitOr(y_raw, 65024)) ELSE ToI16(y_raw)
        y == WrapI16(y0 - 128)
        x0 == IF BitAnd(x_raw, 256) # 0 THEN ToI16(BitOr(x_raw, 65024)) ELSE ToI16(x_raw)
        x == WrapI16(x0 - 128)
        link == BitAnd(Shr(size_link, 8), 127)
    IN [ y |-> y,
         x |-> x,
         size |-> <<BitAnd(Shr(size_link, 2), 3) + 1, BitAnd(size_link, 3) + 1>>,
         link |-> link,
         tile_index |-> BitAnd(attributes, 2047),
         palette |-> BitAnd(Shr(attributes, 13), 3),
         priority |-> BitAnd(attributes, 32768) # 0,
         flip_horizontal |-> BitAnd(attributes, 2048) # 0,
         flip_vertical |-> BitAnd(attributes, 4096) # 0,
         valid |-> (~(y < -128 \/ y >= 224 + 128)) \/ link # 0,
         visible |-> TRUE,
         high_color_mode |-> high_color_mode ]

\* Sprite::new
Sprite_new ==
    [ y |-> 0,
      x |-> 0,
      size |-> <<1, 1>>,
      link |-> 0,
      tile_index |-> 0,
      palette |-> 0,
      priority |-> FALSE,
      flip_horizontal |-> FALSE,
      flip_vertical |-> FALSE,
      valid |-> FALSE,
      visible |-> FALSE,
      high_color_mode |-> FALSE ]

\* Sprite::with_params
with_params(x, y, size, tile_index, palette, priority, flip_h, flip_v, high_color_mode) ==
    [ y |-> y,
      x |-> x,
      size |-> size,
      link |-> 0,
      tile_index |-> tile_index,
      palette |-> palette,
      priority |-> priority,
      flip_horizontal |-> flip_h,
      flip_vertical |-> flip_v,
      valid |-> TRUE,
      visible |-> TRUE,
      high_color_mode |-> high_color_mode ]

\* SpriteSize::to_hardware_code ; a size is <<width, height>> in tiles
to_hardware_code(size) == <<size[1] - 1, size[2] - 1>>

\* the 9-bit position field of Sprite::to_bytes
EncodePosition(p) ==
    LET adj == WrapI16(p + 128)
    IN IF adj < 0 THEN BitOr(BitAnd(adj + 65536, 511), 65024)
       ELSE BitAnd(adj, 511)

\* a plausible slip: the positions are encoded without the offset of 128
to_bytes_no_offset(sp) ==
    LET y_raw == BitAnd(U16(sp.y + 65536), 511)
        code == to_hardware_code(sp.size)
        size_link == BitOr(BitOr(Shl(BitAnd(sp.link, 127), 8), Shl(BitAnd(code[1], 3), 2)),
                           BitAnd(code[2], 3))
        x_raw == BitAnd(U16(sp.x + 65536), 511)
        a0 == BitOr(BitAnd(sp.tile_index, 2047), Shl(BitAnd(sp.palette, 3), 13))
        a1 == IF sp.priority THEN BitOr(a0, 32768) ELSE a0
        a2 == IF sp.flip_horizontal THEN BitOr(a1, 2048) ELSE a1
        attributes == IF sp.flip_vertical THEN BitOr(a2, 4096) ELSE a2
    IN << Shr(y_raw, 8), U8(y_raw), Shr(size_link, 8), U8(size_link),
          Shr(x_raw, 8), U8(x_raw), Shr(attributes, 8), U8(attributes) >>

\* Sprite::to_bytes ; the sequence of the 8 bytes of the SAT entry
to_bytes(sp) ==
    LET y_raw == EncodePosition(sp.y)
        code == to_hardware_code(sp.size)
        size_link == BitOr(BitOr(Shl(BitAnd(sp.link, 127), 8), Shl(BitAnd(code[1], 3), 2)),
                           BitAnd(code[2], 3))
        x_raw == EncodePosition(sp.x)
        a0 == BitOr(BitAnd(sp.tile_index, 2047), Shl(BitAnd(sp.palette, 3), 13))
        a1 == IF sp.priority THEN BitOr(a0, 32768) ELSE a0
        a2 == IF sp.flip_horizontal THEN BitOr(a1, 2048) ELSE a1
        attributes == IF sp.flip_vertical THEN BitOr(a2, 4096) ELSE a2
    IN << Shr(y_raw, 8), U8(y_raw), Shr(size_link, 8), U8(size_link),
          Shr(x_raw, 8), U8(x_raw), Shr(attributes, 8), U8(attributes) >>

\* Sprite::width_pixels / Sprite::height_pixels
width_pixels(sp) == sp.size[1] * TILE_SIZE
height_pixels(sp) == sp.size[2] * TILE_SIZE

\* Sprite::is_on_line
is_on_line(sp, line) ==
    sp.valid /\ sp.visible /\ line >= sp.y /\ line < sp.y + height_pixels(sp)

\* Sprite::is_offscreen
is_offscreen(sp, screen_width, screen_height) ==
    \/ sp.x + width_pixels(sp) <= 0
    \/ sp.x >= screen_width
    \/ sp.y + height_pixels(sp) <= 0
    \/ sp.y >= screen_height

\* SpriteTable::new
SpriteTable_new(base_address, high_color_mode) ==
    [ sprites |-> << >>,
      base_address |-> base_address,
      sprite_count |-> 0,
      active_sprites_per_line |-> MemEmpty,
      overflow_line |-> None,
      collision_detected |-> FALSE,
      high_color_mode |-> high_color_mode ]

\* SpriteTable::clear
SpriteTable_clear(t) ==
    [t EXCEPT !.sprites = << >>,
              !.sprite_count = 0,
              !.active_sprites_per_line = MemEmpty,
              !.overflow_line = None,
              !.collision_detected = FALSE]

\* a plausible slip: the loop does not stop at a link of 0
RECURSIVE load_loop_past_zero_link(_, _, _, _)
load_loop_past_zero_link(t, vr, link_index, processed_sprites) ==
    IF ~(link_index < MAX_SPRITES_PER_FRAME /\ processed_sprites < MAX_SPRITES_PER_FRAME)
    THEN t
    ELSE LET addr == t.base_address + link_index * SPRITE_ENTRY_SIZE
             bytes == [k \in 1..8 |-> Vram_read8(vr, addr + k - 1)]
             sprite == from_bytes(bytes, t.high_color_mode)
             t1 == [t EXCEPT !.sprites = Append(t.sprites, sprite),
                             !.sprite_count = t.sprite_count + 1]
         IN load_loop_past_zero_link(t1, vr, sprite.link, processed_sprites + 1)

\* the loop of SpriteTable::load_from_vram
RECURSIVE load_loop(_, _, _, _)
load_loop(t, vr, link_index, processed_sprites) ==
    IF ~(link_index < MAX_SPRITES_PER_FRAME /\ processed_sprites < MAX_SPRITES_PER_FRAME)
    THEN t
    ELSE LET addr == t.base_address + link_index * SPRITE_ENTRY_SIZE
             bytes == [k \in 1..8 |-> Vram_read8(vr, addr + k - 1)]
             sprite == from_bytes(bytes, t.high_color_mode)
             t1 == [t EXCEPT !.sprites = Append(t.sprites, sprite),
                             !.sprite_count = t.sprite_count + 1]
         IN IF sprite.link = 0 THEN t1
            ELSE load_loop(t1, vr, sprite.link, processed_sprites + 1)

\* the traversal with that slip
load_from_vram_past_zero_link(t, vr) ==
    load_loop_past_zero_link(SpriteTable_clear(t), vr, 0, 0)

\* SpriteTable::load_from_vram
load_from_vram(t, vr) == load_loop(SpriteTable_clear(t), vr, 0, 0)

\* the inner loop of SpriteTable::calculate_active_sprites: the sprites from
\* position k on, with the count so far and the overflow line so far;
\* returns <<count, overflow_line>>
RECURSIVE count_loop(_, _, _, _, _)
count_loop(sprites, k, line, count, overflow_line) ==
    IF k > Len(sprites) THEN <<count, overflow_line>>
    ELSE IF is_on_line(sprites[k], line)
         THEN count_loop(sprites, k + 1, line, count + 1,
                         IF count + 1 > MAX_SPRITES_PER_LINE /\ overflow_line = None
                         THEN Some(line) ELSE overflow_line)
         ELSE count_loop(sprites, k + 1, line, count, overflow_line)

\* a plausible slip: the stored count is not limited to 20
calculate_active_sprites_uncapped(t, screen_height) ==
    LET lines == 0..(screen_height - 1)
        pass == [line \in lines |-> count_loop(t.sprites, 1, line, 0, None)]
        over == {line \in lines : pass[line][2] # None}
    IN [t EXCEPT
          !.active_sprites_per_line =
              [line \in {l \in lines : pass[l][1] # 0} |-> pass[line][1]],
          !.overflow_line =
              IF over = {} THEN None
              ELSE Some(CHOOSE l \in over : \A m \in over : l <= m)]

\* SpriteTable::calculate_active_sprites ; active_sprites_per_line holds the
\* lines whose count is not 0. The passes of the outer loop share only
\* overflow_line, which the first pass that finds more than 20 sprites sets
\* and no later pass changes: pass[line] is the inner loop entered with no
\* overflow line yet, and overflow_line is that of the first pass that set one.
calculate_active_sprites(t, screen_height) ==
    LET lines == 0..(screen_height - 1)
        pass == [line \in lines |-> count_loop(t.sprites, 1, line, 0, None)]
        over == {line \in lines : pass[line][2] # None}
    IN [t EXCEPT
          !.active_sprites_per_line =
              [line \in {l \in lines : pass[l][1] # 0} |->
                  IF pass[line][1] < MAX_SPRITES_PER_LINE
                  THEN pass[line][1] ELSE MAX_SPRITES_PER_LINE],
          !.overflow_line =
              IF over = {} THEN None
              ELSE Some(CHOOSE l \in over : \A m \in over : l <= m)]

\* SpriteTable::add_sprite
add_sprite(t, sprite) ==
    IF t.sprite_count >= MAX_SPRITES_PER_FRAME THEN t
    ELSE [t EXCEPT !.sprites = Append(@, sprite),
                   !.sprite_count = @ + 1]

add_sprite_result(t, sprite) == ~(t.sprite_count >= MAX_SPRITES_PER_FRAME)

\* SpriteTable::detect_collisions
detect_collisions(t, screen_width, screen_height) ==
    LET ok(k) == /\ t.sprites[k].valid
                 /\ t.sprites[k].visible
                 /\ ~is_offscreen(t.sprites[k], screen_width, screen_height)
        overlap(a, b) == /\ a.x < b.x + width_pixels(b)
                         /\ a.x + width_pixels(a) > b.x
                         /\ a.y < b.y + height_pixels(b)
                         /\ a.y + height_pixels(a) > b.y
    IN [t EXCEPT !.collision_detected =
          \E i \in 1..Len(t.sprites) : \E j \in (i + 1)..Len(t.sprites) :
             ok(i) /\ ok(j) /\ overlap(t.sprites[i], t.sprites[j])]

(***************************************************************************)
(* video_modes.rs : the resolution of the current mode.                    *)
(***************************************************************************)
\* VdpVideoMode::new_default
VdpVideoMode_new_default == [visible_width |-> 320, visible_height |-> 224]

\* VdpVideoMode::from_registers (resolution only)
VdpVideoMode_from_registers(r, is_pal) ==
    LET r12 == regs_get(r, 12)
        h40 == BitAnd(r12, 1) # 0
        interlace == BitAnd(Shr(r12, 1), 3) >= 2
        base == IF h40
                THEN (IF is_pal THEN [visible_width |-> 320, visible_height |-> 240]
                      ELSE [visible_width |-> 320, visible_height |-> 224])
                ELSE [visible_width |-> 256, visible_height |-> 224]
    IN IF interlace
       THEN (IF h40 THEN [visible_width |-> 320, visible_height |-> 448]
             ELSE [base EXCEPT !.visible_height = base.visible_height * 2])
       ELSE base

(***************************************************************************)
(* mod.rs : the Vdp object.  A Vdp value is the record of its components;  *)
(* field vdp holds the scalar fields, the video mode and the sprite table. *)
(* bus_ref is TRUE when a bus reference is set.  The renderer and the      *)
(* plane manager, which tick only marks and refreshes, are left out.       *)
(***************************************************************************)
\* Vdp::new
Vdp_new(is_pal) ==
    [ regs |-> VdpRegisters_new,
      cram |-> Cram_new,
      vram |-> Vram_new,
      vsram |-> Vsram_new,
      dma |-> VdpDma_new,
      interrupts |-> set_video_mode(VdpInterruptController_new, is_pal),
      vdp |-> [ video_mode |-> VdpVideoMode_new_default,
                sprite_table |-> SpriteTable_new(63488, FALSE),
                is_pal |-> is_pal,
                frame_counter |-> 0,
                cycles_elapsed |-> 0,
                display_enabled |-> TRUE,
                vblank_active |-> FALSE,
                hblank_active |-> FALSE,
                bus_ref |-> FALSE ] ]

\* Vdp::update_video_mode
update_video_mode(v) ==
    [v EXCEPT !.vdp.video_mode = VdpVideoMode_from_registers(v.regs, v.vdp.is_pal)]

\* Vdp::initialize
initialize(v) ==
    LET v1 == update_video_mode(v)
    IN [v1 EXCEPT !.interrupts = update_from_registers(v1.interrupts, v1.regs),
                  !.dma = setup_from_registers(v1.dma, v1.regs, 0)]

\* Vdp::on_vblank_start
on_vblank_start(v) ==
    LET t1 == load_from_vram(v.vdp.sprite_table, v.vram)
        t2 == calculate_active_sprites(t1, v.vdp.video_mode.visible_height)
        t3 == detect_collisions(t2, v.vdp.video_mode.visible_width,
                                v.vdp.video_mode.visible_height)
        i1 == IF t3.collision_detected THEN signal_sprite_collision(v.interrupts)
              ELSE v.interrupts
        i2 == IF t3.overflow_line # None THEN signal_sprite_overflow(i1, 0) ELSE i1
    IN [v EXCEPT !.vdp.frame_counter = v.vdp.frame_counter + 1,
                 !.vdp.sprite_table = t3,
                 !.interrupts = i2]

\* Vdp::update_counters
update_counters(v) ==
    LET vb == in_vblank(v.interrupts)
        v1 == IF vb /\ ~v.vdp.vblank_active
              THEN on_vblank_start([v EXCEPT !.vdp.vblank_active = TRUE])
              ELSE IF ~vb /\ v.vdp.vblank_active
              THEN [v EXCEPT !.vdp.vblank_active = FALSE]
              ELSE v
        hb == in_hblank(v1.interrupts)
    IN IF hb /\ ~v1.vdp.hblank_active THEN [v1 EXCEPT !.vdp.hblank_active = TRUE]
       ELSE IF ~hb /\ v1.vdp.hblank_active THEN [v1 EXCEPT !.vdp.hblank_active = FALSE]
       ELSE v1

\* Vdp::tick
Vdp_tick(v, ext) ==
    LET v1 == [v EXCEPT !.vdp.cycles_elapsed = v.vdp.cycles_elapsed + 1,
                        !.interrupts = Irq_tick(v.interrupts, v.regs)]
        v2 == IF is_active(v1.dma) /\ v1.vdp.bus_ref
              THEN LET w == VdpDma_tick(v1.dma, ext, v1.vram, v1.cram, v1.vsram)
                   IN [v1 EXCEPT !.dma = w.dma, !.vram = w.vram,
                                 !.cram = w.cram, !.vsram = w.vsram]
              ELSE v1
    IN update_counters(v2)

\* Vdp::process_pending_write
process_pending_write(v) ==
    IF ~v.regs.current_address.read_mode /\ has_fifo_commands(v.regs)
    THEN LET data == pop_fifo_result(v.regs)[1]
             r1 == pop_fifo(v.regs)
             addr == r1.current_address.addr
             ty == r1.current_address.access_type
         IN [v EXCEPT
               !.regs = increment_address(r1),
               !.vram = IF ty = VRAM THEN Vram_write16(v.vram, addr, data) ELSE v.vram,
               !.cram = IF ty = CRAM THEN Cram_write(v.cram, addr, data) ELSE v.cram,
               !.vsram = IF ty = VSRAM THEN Vsram_write16(v.vsram, addr, data) ELSE v.vsram]
    ELSE v

\* Vdp::bus_write
bus_write(v, addr, value) ==
    LET port == BitAnd(addr, 252)
        r == v.regs
        r1 == CASE port = 0 ->
                     write_data_port(r, BitOr(BitAnd(r.data_buffer, 65280), value))
                [] port = 2 ->
                     write_data_port(r, BitOr(Shl(value, 8), BitAnd(r.data_buffer, 255)))
                [] port = 4 ->
                     write_control_port(r, BitOr(BitAnd(r.address_buffer, 65280), value))
                [] port = 6 ->
                     write_control_port(r, BitOr(Shl(value, 8), BitAnd(r.address_buffer, 255)))
                [] OTHER -> r
    IN process_pending_write([v EXCEPT !.regs = r1])

\* Vdp::bus_read (the new Vdp, then the byte returned)
bus_read(v, addr) ==
    LET port == BitAnd(addr, 252)
    IN CASE port = 0 -> [v EXCEPT !.regs = read_data_port(v.regs)]
         [] port = 2 -> [v EXCEPT !.regs = read_data_port(v.regs)]
         [] port = 4 -> [v EXCEPT !.regs = read_control_port(v.regs)]
         [] OTHER -> v
bus_read_result(v, addr) ==
    LET port == BitAnd(addr, 252)
    IN CASE port = 0 -> U8(read_data_port_result(v.regs))
         [] port = 2 -> U8(Shr(read_data_port_result(v.regs), 8))
         [] port = 4 -> read_control_port_result(v.regs)
         [] OTHER -> 0

\* Vdp::poll_interrupt (the new Vdp, then the value returned)
poll_interrupt(v) == [v EXCEPT !.interrupts = pop_interrupt(v.interrupts)]
poll_interrupt_result(v) ==
    IF v.interrupts.pending # << >> THEN Some(Head(v.interrupts.pending).irq_type) ELSE None

\* Vdp::read_status
Vdp_read_status(v) == [v EXCEPT !.interrupts = read_status(v.interrupts)]

\* Vdp::set_bus_reference
set_bus_reference(v) == [v EXCEPT !.vdp.bus_ref = TRUE]

\* Vdp::set_video_mode
Vdp_set_video_mode(v, is_pal) ==
    update_video_mode([v EXCEPT !.vdp.is_pal = is_pal,
                                !.interrupts = set_video_mode(v.interrupts, is_pal)])

\* Vdp::reset
Vdp_reset(v) ==
    initialize([v EXCEPT
        !.regs = VdpRegisters_reset(v.regs),
        !.cram = Cram_new,
        !.vram = Vram_new,
        !.vsram = Vsram_clear(v.vsram),
        !.dma = VdpDma_new,
        !.interrupts = Irq_reset(v.interrupts),
        !.vdp.sprite_table = SpriteTable_clear(v.vdp.sprite_table),
        !.vdp.frame_counter = 0,
        !.vdp.cycles_elapsed = 0,
        !.vdp.vblank_active = FALSE,
        !.vdp.hblank_active = FALSE])

(***************************************************************************)
(* State machine.  The state is one Vdp; Init is Vdp::new for either video *)
(* standard.  hist observes the run: dma_ticks is the number of DMA ticks  *)
(* since the last successful setup (-1 when no transfer is under way, i.e. *)
(* before any setup, after a refused setup, an abort or a reset) and       *)
(* aborted tells that no setup has succeeded since the last abort.  raised *)
(* holds the status flags the controller has raised since the CPU last     *)
(* read the status port, reset_from what the last step, if it was a reset,  *)
(* found, args the arguments of the last call where a property needs them. *)
(***************************************************************************)
Self ==
    [regs |-> regs, dma |-> dma, interrupts |-> interrupts,
     vram |-> vram, cram |-> cram, vsram |-> vsram, vdp |-> vdp]

Becomes(v) ==
    /\ regs' = v.regs
    /\ dma' = v.dma
    /\ interrupts' = v.interrupts
    /\ vram' = v.vram
    /\ cram' = v.cram
    /\ vsram' = v.vsram
    /\ vdp' = v.vdp

Starts(v) ==
    /\ regs = v.regs
    /\ dma = v.dma
    /\ interrupts = v.interrupts
    /\ vram = v.vram
    /\ cram = v.cram
    /\ vsram = v.vsram
    /\ vdp = v.vdp

Init ==
    /\ \E is_pal \in BOOLEAN : Starts(Vdp_new(is_pal))
    /\ op = "new"
    /\ ret = None
    /\ hist = [dma_ticks |-> -1, aborted |-> FALSE, raised |-> {},
               reset_from |-> None, args |-> << >>]

(***************************************************************************)
(* The register file driven through its ports (VdpRegisters alone).        *)
(***************************************************************************)
\* Data words the host writes to the data port.
FifoWords == {4369, 8738}

\* Control words: 0x0000 (code 0: VRAM write), 0x4000 (code 0x40: CRAM read).
FifoControlWords == {0, 16384}

\* Register writes that arm the port-driven DMA: R1 = 0xC0 selects the mode,
\* R19 = 2 sets a length of two words.
FifoRegWrites == {<<1, 192>>, <<19, 2>>}

OnlyRegs == UNCHANGED <<dma, interrupts, vram, cram, vsram, vdp, hist>>

\* VdpRegisters::write_reg
RegsWriteReg ==
    \E w \in FifoRegWrites :
       /\ regs' = write_reg(regs, w[1], w[2])
       /\ op' = "write_reg"
       /\ ret' = None
       /\ OnlyRegs

\* VdpRegisters::write_data_port; a port-driven DMA of length 0 wraps to
\* 65535 words, which is not followed here.
RegsWriteDataPort ==
    \E value \in FifoWords :
       /\ ~(regs.dma_active /\ regs.dma_length = 0)
       /\ regs' = write_data_port(regs, value)
       /\ op' = "write_data_port"
       /\ ret' = None
       /\ OnlyRegs

\* VdpRegisters::write_control_port
RegsWriteControlPort ==
    \E value \in FifoControlWords :
       /\ regs' = write_control_port(regs, value)
       /\ op' = "write_control_port"
       /\ ret' = None
       /\ OnlyRegs

\* VdpRegisters::pop_fifo
RegsPopFifo ==
    /\ regs' = pop_fifo(regs)
    /\ op' = "pop_fifo"
    /\ ret' = pop_fifo_result(regs)
    /\ OnlyRegs

\* VdpRegisters::reset
RegsReset ==
    /\ regs' = VdpRegisters_reset(regs)
    /\ op' = "reset"
    /\ ret' = None
    /\ OnlyRegs

NextFifo ==
    \/ RegsWriteReg
    \/ RegsWriteDataPort
    \/ RegsWriteControlPort
    \/ RegsPopFifo
    \/ RegsReset

SpecFifo == Init /\ [][NextFifo]_vars

\* C1: the write FIFO never holds more than 4 entries, and a data-port write
\* made while it holds 4 leaves its entries unchanged with FIFO_FULL set.
FifoBounded ==
    [][ /\ Len(regs'.fifo) <= 4
        /\ (op' = "write_data_port" /\ Len(regs.fifo) = 4)
              => (regs'.fifo = regs.fifo /\ FlagContains(regs'.status, R_FIFO_FULL))
      ]_vars

\* C1 witness: a data-port write has just been refused by a full FIFO.
FifoBoundedWitness ==
    /\ op = "write_data_port"
    /\ Len(regs.fifo) = 4
    /\ FlagContains(regs.status, R_FIFO_FULL)
    /\ regs.fifo[4] # regs.data_buffer

\* C2: draining a non-empty FIFO returns the entry at its front, the oldest
\* one, and leaves the later entries in their order.
FifoDrainsFront ==
    [][ (op' = "pop_fifo" /\ regs.fifo # <<>>)
           => (ret' = Some(Head(regs.fifo)) /\ regs'.fifo = Tail(regs.fifo)) ]_vars

\* C2 as the code has it: pop_fifo returns the entry written last.
FifoDrainsBack ==
    [][ (op' = "pop_fifo" /\ regs.fifo # <<>>)
           => /\ ret' = Some(regs.fifo[Len(regs.fifo)])
              /\ regs'.fifo = SubSeq(regs.fifo, 1, Len(regs.fifo) - 1) ]_vars

\* C2 witness: two different words were queued and the later one came out.
FifoDrainsBackWitness ==
    /\ op = "pop_fifo"
    /\ Len(regs.fifo) = 1
    /\ ret # None
    /\ ret # Some(regs.fifo[1])

(***************************************************************************)
(* The DMA engine driven directly (VdpDma alone, with the memories it      *)
(* writes).                                                                *)
(***************************************************************************)
\* Register files handed to setup_from_registers: R1 = 0xC0 enables DMA, R23
\* selects the engine's mode (0x00 memory to VDP, 0x40 fill, 0x80 copy), R19
\* the length and R21 the source / fill byte.  With R23 = 0xC0 followed by
\* R1 = 0x80 DMA is enabled and the engine's mode bits say "inactive".
DmaRegFile(r23, len, src) ==
    LET r1 == write_reg(VdpRegisters_new, 1, 192)
        r2 == write_reg(r1, 23, r23)
        r3 == IF r23 = 192 THEN write_reg(r2, 1, 128) ELSE r2
        r4 == write_reg(r3, 19, len)
    IN write_reg(r4, 21, src)

DmaRegFiles ==
    {VdpRegisters_new, DmaRegFile(192, 1, 2)}
      \cup {DmaRegFile(r23, len, 2) : r23 \in {0, 64, 128}, len \in 0..MaxDmaLen}

\* Destinations: the start of VRAM, and its last word (the next word falls
\* outside the 14-bit VRAM window).
DmaDests == {0, 16382}

\* The byte a mapped device answers on the bus.
BusBytes == {255}

OnlyDma == UNCHANGED <<regs, interrupts, vdp>>

\* VdpDma::setup_from_registers
DmaSetup ==
    \E r \in DmaRegFiles, vram_addr \in DmaDests :
       LET ok == setup_from_registers_result(dma, r, vram_addr)
       IN /\ dma' = setup_from_registers(dma, r, vram_addr)
          /\ op' = "setup_from_registers"
          /\ ret' = Some(ok)
          /\ hist' = [hist EXCEPT !.dma_ticks = IF ok THEN 0 ELSE -1,
                                  !.aborted = hist.aborted /\ ~ok]
          /\ UNCHANGED <<vram, cram, vsram>>
          /\ OnlyDma

\* VdpDma::tick; ticks are counted up to MaxDmaLen + 1 after a setup.
DmaTick ==
    \E ext \in BusBytes :
       LET w == VdpDma_tick(dma, ext, vram, cram, vsram)
       IN /\ hist.dma_ticks <= MaxDmaLen
          /\ dma' = w.dma
          /\ vram' = w.vram
          /\ cram' = w.cram
          /\ vsram' = w.vsram
          /\ op' = "tick"
          /\ ret' = Some(w.completed)
          /\ hist' = [hist EXCEPT !.dma_ticks = IF @ >= 0 THEN @ + 1 ELSE @]
          /\ OnlyDma

\* VdpDma::abort
DmaAbort ==
    /\ dma' = abort(dma)
    /\ op' = "abort"
    /\ ret' = None
    /\ hist' = [hist EXCEPT !.dma_ticks = -1, !.aborted = TRUE]
    /\ UNCHANGED <<vram, cram, vsram>>
    /\ OnlyDma

NextDma ==
    \/ DmaSetup
    \/ DmaTick
    \/ DmaAbort

SpecDma == Init /\ [][NextDma]_vars

\* C3: k ticks after a successful setup of length n >= 1 (k <= n) the
\* remaining-word counter is n - k, the engine is active when k < n, and it is
\* inactive with no word remaining when k = n.
DmaCountsDown ==
    (hist.dma_ticks >= 0 /\ dma.length >= 1 /\ hist.dma_ticks <= dma.length)
       => /\ dma.words_remaining = dma.length - hist.dma_ticks
          /\ dma.active <=> hist.dma_ticks < dma.length

\* C3 witness: a transfer of two words has been ticked to its end.
DmaCountsDownWitness ==
    /\ op = "tick"
    /\ dma.length = 2
    /\ hist.dma_ticks = 2
    /\ dma.words_remaining = 0
    /\ ~dma.active

\* C4: a tick or an abort never increases the remaining-word counter, and a
\* tick that leaves the counter at 0 leaves the engine inactive, mode Inactive.
DmaCounterNonIncreasing ==
    [][ /\ op' \in {"tick", "abort"} => dma'.words_remaining <= dma.words_remaining
        /\ (op' = "tick" /\ dma'.words_remaining = 0)
              => (~dma'.active /\ dma'.mode = Inactive)
      ]_vars

\* C4 witness: a tick has just moved the last word of a transfer.
DmaCounterNonIncreasingWitness ==
    /\ op = "tick"
    /\ hist.dma_ticks = dma.length
    /\ dma.length >= 1
    /\ dma.words_remaining = 0
    /\ ret = Some(TRUE)
    /\ dma.mode = Inactive

\* C6: abort leaves the engine inactive, mode Inactive, no word remaining and
\* the three memories as they were; from then until a setup succeeds no tick
\* writes a memory or moves an address of the engine.
DmaAbortStops ==
    [][ /\ op' = "abort"
           => /\ ~dma'.active
              /\ dma'.mode = Inactive
              /\ dma'.words_remaining = 0
              /\ UNCHANGED <<vram, cram, vsram>>
        /\ (op' = "tick" /\ hist.aborted)
           => /\ UNCHANGED <<vram, cram, vsram>>
              /\ dma'.words_remaining = 0
              /\ dma'.dest_addr = dma.dest_addr
              /\ dma'.source_addr = dma.source_addr
              /\ dma'.copy_source = dma.copy_source
      ]_vars

\* C6 witness: a transfer was aborted midway, after it had written VRAM,
\* and a tick followed the abort.
DmaAbortStopsWitness ==
    /\ op = "tick"
    /\ hist.aborted
    /\ dma.length = 2
    /\ dma.dest_addr = 2
    /\ vram # Vram_new
    /\ dma.words_remaining = 0

(***************************************************************************)
(* The whole Vdp over its first cycles: ticks, the CPU's port accesses,    *)
(* register writes, initialize / reset and the DMA engine's controls.      *)
(***************************************************************************)
\* Register writes: R23 = 0x40 enables DMA in fill mode, R19 = 2 is a length
\* of two words, R21 = 2 the fill byte.
VdpRegWrites == {<<23, 64>>, <<19, 2>>, <<21, 2>>}

\* Bus addresses of the data port (0xC00000) and the control port (0xC00004).
DATA_PORT == 12582912
CONTROL_PORT == 12582916

\* Bytes written to the control port: 0x00, twice for a VRAM write at 0.
VdpControlBytes == {0}

\* hist after a call of setup_from_registers that returned ok
HistSetup(ok) ==
    [hist EXCEPT !.dma_ticks = IF ok THEN 0 ELSE -1, !.aborted = hist.aborted /\ ~ok]

\* Vdp::tick, for the first MaxCycles cycles after construction or reset
VdpTick ==
    \E ext \in BusBytes :
       /\ vdp.cycles_elapsed < MaxCycles
       /\ Becomes(Vdp_tick(Self, ext))
       /\ op' = "tick"
       /\ ret' = None
       /\ hist' = [hist EXCEPT !.dma_ticks =
                     IF @ >= 0 /\ dma.active /\ vdp.bus_ref THEN @ + 1 ELSE @]

\* Vdp::initialize
VdpInitialize ==
    /\ Becomes(initialize(Self))
    /\ op' = "initialize"
    /\ ret' = None
    /\ hist' = HistSetup(setup_from_registers_result(dma, regs, 0))

\* Vdp::reset
VdpReset ==
    /\ Becomes(Vdp_reset(Self))
    /\ op' = "reset"
    /\ ret' = None
    /\ hist' = [hist EXCEPT !.dma_ticks = -1, !.aborted = FALSE]

\* Vdp::set_bus_reference
VdpSetBusReference ==
    /\ Becomes(set_bus_reference(Self))
    /\ op' = "set_bus_reference"
    /\ ret' = None
    /\ UNCHANGED hist

\* VdpRegisters::write_reg on the Vdp's register file
VdpWriteReg ==
    \E w \in VdpRegWrites :
       /\ regs' = write_reg(regs, w[1], w[2])
       /\ op' = "write_reg"
       /\ ret' = None
       /\ OnlyRegs

\* VdpDma::abort on the Vdp's engine
VdpDmaAbort ==
    /\ dma' = abort(dma)
    /\ op' = "abort"
    /\ ret' = None
    /\ hist' = [hist EXCEPT !.dma_ticks = -1, !.aborted = TRUE]
    /\ UNCHANGED <<regs, interrupts, vram, cram, vsram, vdp>>

\* Vdp::bus_write to the control port
VdpBusWrite ==
    \E value \in VdpControlBytes :
       /\ Becomes(bus_write(Self, CONTROL_PORT, value))
       /\ op' = "bus_write"
       /\ ret' = None
       /\ UNCHANGED hist

\* Vdp::bus_read of the control port
VdpBusRead ==
    /\ Becomes(bus_read(Self, CONTROL_PORT))
    /\ op' = "bus_read"
    /\ ret' = Some(bus_read_result(Self, CONTROL_PORT))
    /\ UNCHANGED hist

NextVdp ==
    \/ VdpTick
    \/ VdpInitialize
    \/ VdpReset
    \/ VdpSetBusReference
    \/ VdpWriteReg
    \/ VdpDmaAbort
    \/ VdpBusWrite
    \/ VdpBusRead

SpecVdp == Init /\ [][NextVdp]_vars

\* The DMA bit as the CPU can read it: in the byte bus_read returns for the
\* control port (the register file's status) or in the byte Vdp::read_status
\* returns (the interrupt controller's status).
CpuDmaBit ==
    \/ FlagContains(regs.status, R_DMA_ACTIVE)
    \/ FlagContains(interrupts.status, I_DMA_IN_PROGRESS)

\* C5: the CPU-visible DMA bit follows the Vdp's DMA engine: after a tick
\* that leaves the engine active the bit is set, and after a tick that began
\* with the engine drained (inactive, no word remaining) the bit is clear.
DmaBitFollowsEngine ==
    [][ op' = "tick"
          => /\ dma'.active => CpuDmaBit'
             /\ (~dma.active /\ dma.words_remaining = 0) => ~CpuDmaBit'
      ]_vars

\* C5 witness: the engine, with the bus attached, is in the middle of a
\* two-word transfer and the CPU reads no DMA bit.
DmaBitIgnoresEngine ==
    /\ op = "tick"
    /\ vdp.bus_ref
    /\ dma.active
    /\ dma.length = 2
    /\ dma.words_remaining = 1
    /\ ~CpuDmaBit

\* C7: a Vdp::tick made while the engine is active with a word to move
\* moves exactly one word, and a tick made while the engine is inactive
\* leaves the three memories and the engine's addresses as they were.
TickTransfersOneWord ==
    [][ op' = "tick"
          => /\ (dma.active /\ dma.words_remaining >= 1)
                   => dma'.words_remaining = dma.words_remaining - 1
             /\ ~dma.active
                   => /\ UNCHANGED <<vram, cram, vsram>>
                      /\ dma'.dest_addr = dma.dest_addr
                      /\ dma'.source_addr = dma.source_addr
                      /\ dma'.copy_source = dma.copy_source
      ]_vars

\* C7 witness: MaxCycles ticks went by with a two-word transfer set up and
\* no bus attached, and no word has moved.
TickWithoutBusMovesNothing ==
    /\ op = "tick"
    /\ vdp.cycles_elapsed = MaxCycles
    /\ hist.dma_ticks = 0
    /\ ~vdp.bus_ref
    /\ dma.active
    /\ dma.length = 2
    /\ dma.words_remaining = 2

(***************************************************************************)
(* The interrupt controller driven directly (VdpInterruptController alone) *)
(* through its first frame.  The host calls tick in a loop, a scanline's   *)
(* worth of calls at a time, up to the last visible line; there it wakes   *)
(* one cycle before HBlank, and again PollLead cycles before VBlank, and   *)
(* configures, signals, polls and reads between single ticks, until        *)
(* PollTail cycles after the VBlank.                                       *)
(***************************************************************************)
\* A register file that enables the three timing interrupts (R0 = 0x18,
\* R1 = 0x20) and programs the line interrupt (R10) for the given line.
IrqRegFile(line) ==
    write_reg(write_reg(write_reg(VdpRegisters_new, 0, 24), 1, 32), 10, line)

\* The host acts on the last visible line from one cycle before HBlank on.
HostAwake ==
    \/ interrupts.v_counter >= interrupts.v_blank_start
    \/ /\ interrupts.v_counter = interrupts.v_blank_start - 1
       /\ interrupts.h_counter >= interrupts.h_blank_start - 1

\* The number of tick calls the host makes in a row from where it is.
Burst ==
    LET h == interrupts.h_counter
        line == cycles_per_line(interrupts)
    IN IF interrupts.v_counter < interrupts.v_blank_start - 1 THEN line
       ELSE IF interrupts.v_counter >= interrupts.v_blank_start THEN 1
       ELSE IF h < interrupts.h_blank_start - 1 THEN interrupts.h_blank_start - 1 - h
       ELSE IF h >= interrupts.h_blank_start /\ h < line - PollLead THEN line - PollLead - h
       ELSE 1

OnlyIrq == UNCHANGED <<regs, dma, vram, cram, vsram, vdp, hist>>

\* n calls of VdpInterruptController::tick in a row (by halves, each half
\* evaluated before the next starts)
RECURSIVE TickTimes(_, _, _)
TickTimes(i, r, n) ==
    IF n = 0 THEN i
    ELSE IF n = 1 THEN Irq_tick(i, r)
    ELSE LET half == TickTimes(i, r, n \div 2)
         IN IF half.cycle_counter = i.cycle_counter + (n \div 2)
            THEN TickTimes(half, r, n - (n \div 2))
            ELSE half

\* VdpInterruptController::tick, up to PollTail cycles into the VBlank and
\* while the queue holds at most MaxPending events
IrqTick ==
    LET i == TickTimes(interrupts, regs, Burst)
    IN /\ \/ interrupts.v_counter < interrupts.v_blank_start
          \/ interrupts.h_counter < PollTail
       /\ Len(i.pending) <= MaxPending
       /\ interrupts' = i
       /\ op' = "tick"
       /\ ret' = None
       /\ OnlyIrq

\* VdpInterruptController::update_from_registers
IrqUpdateFromRegisters ==
    /\ HostAwake
    /\ interrupts' = update_from_registers(interrupts, IrqRegFile(interrupts.v_blank_start))
    /\ op' = "update_from_registers"
    /\ ret' = None
    /\ OnlyIrq

\* VdpInterruptController::signal_sprite_overflow
IrqSignalSpriteOverflow ==
    /\ HostAwake
    /\ Len(interrupts.pending) < MaxPending
    /\ interrupts' = signal_sprite_overflow(interrupts, interrupts.v_counter)
    /\ op' = "signal_sprite_overflow"
    /\ ret' = None
    /\ OnlyIrq

\* VdpInterruptController::signal_sprite_collision
IrqSignalSpriteCollision ==
    /\ HostAwake
    /\ Len(interrupts.pending) < MaxPending
    /\ interrupts' = signal_sprite_collision(interrupts)
    /\ op' = "signal_sprite_collision"
    /\ ret' = None
    /\ OnlyIrq

\* VdpInterruptController::signal_dma_complete
IrqSignalDmaComplete ==
    /\ HostAwake
    /\ Len(interrupts.pending) < MaxPending
    /\ interrupts' = signal_dma_complete(interrupts)
    /\ op' = "signal_dma_complete"
    /\ ret' = None
    /\ OnlyIrq

\* VdpInterruptController::pop_interrupt
IrqPopInterrupt ==
    /\ HostAwake
    /\ interrupts' = pop_interrupt(interrupts)
    /\ op' = "pop_interrupt"
    /\ ret' = pop_interrupt_result(interrupts)
    /\ OnlyIrq

\* VdpInterruptController::clear_interrupts
IrqClearInterrupts ==
    \E irq_type \in {HBlank, DmaComplete} :
       /\ HostAwake
       /\ interrupts' = clear_interrupts(interrupts, irq_type)
       /\ op' = "clear_interrupts"
       /\ ret' = None
       /\ OnlyIrq

NextIrq ==
    \/ IrqTick
    \/ IrqUpdateFromRegisters
    \/ IrqSignalSpriteOverflow
    \/ IrqSignalSpriteCollision
    \/ IrqSignalDmaComplete
    \/ IrqPopInterrupt
    \/ IrqClearInterrupts

SpecIrq == Init /\ [][NextIrq]_vars

\* The priority of each interrupt type, highest (0) first.
TypePriority(irq_type) ==
    CASE irq_type = VBlank -> 0
      [] irq_type = HBlank -> 1
      [] irq_type = Scanline -> 2
      [] irq_type = SpriteOverflow -> 3
      [] irq_type = SpriteCollision -> 4
      [] irq_type = DmaComplete -> 5

PendingByPriority(q) ==
    /\ \A k \in 1..Len(q) : q[k].priority = TypePriority(q[k].irq_type)
    /\ \A j, k \in 1..Len(q) : j < k => q[j].priority <= q[k].priority

\* C8: the pending queue is always ordered by the priority of the event
\* types, VBlank first and DmaComplete last, and pop_interrupt returns an
\* event that no pending event outranks.
QueueByPriority ==
    [][ /\ PendingByPriority(interrupts'.pending)
        /\ (op' = "pop_interrupt" /\ interrupts.pending # << >>)
              => /\ ret' = Some(interrupts.pending[1])
                 /\ \A k \in 1..Len(interrupts.pending) :
                       ret'[1].priority <= interrupts.pending[k].priority
                 /\ Len(interrupts'.pending) = Len(interrupts.pending) - 1
      ]_vars

\* C8 witness: the tick that starts VBlank detected the line interrupt first
\* and the VBlank second, with a DMA-complete event already waiting; the
\* queue has VBlank in front, and a pop has returned it.
QueueByPriorityWitness ==
    /\ op = "pop_interrupt"
    /\ ret # None
    /\ ret[1].irq_type = VBlank
    /\ Len(interrupts.pending) = 2
    /\ interrupts.pending[1].irq_type = Scanline
    /\ interrupts.pending[2].irq_type = DmaComplete
    /\ interrupts.pending[2].timestamp < ret[1].timestamp

\* C9: pending events of equal priority stand in the queue in the order of
\* their arrival, the order in which pop_interrupt returns them.
TiesInArrivalOrder ==
    \A j, k \in 1..Len(interrupts.pending) :
       (j < k /\ interrupts.pending[j].priority = interrupts.pending[k].priority)
          => interrupts.pending[j].timestamp <= interrupts.pending[k].timestamp

\* C9 witness: of two DMA-complete events that arrived at different cycles,
\* the earlier one has been popped and the later one is still pending.
TiesInArrivalOrderWitness ==
    /\ op = "pop_interrupt"
    /\ ret # None
    /\ ret[1].irq_type = DmaComplete
    /\ interrupts.pending # << >>
    /\ interrupts.pending[1].irq_type = DmaComplete
    /\ ret[1].timestamp < interrupts.pending[1].timestamp

(***************************************************************************)
(* The two status bytes: the interrupt controller's, kept by tick and the  *)
(* sprite signals and read by read_status, and the register file's, kept   *)
(* by the port operations and the flag updates and read by                 *)
(* read_control_port.  The host follows the schedule above.                *)
(***************************************************************************)
\* Flag triples (vblank, hblank, line_irq) given to update_interrupt_flags.
StatusFlagInputs == {<<TRUE, TRUE, TRUE>>, <<TRUE, FALSE, TRUE>>}

\* The host sets up the register file and signals the sprite collision when
\* it wakes, before it enables the timing interrupts; it reads the two
\* status bytes whenever it is awake.
HostPrepares ==
    /\ interrupts.v_counter = interrupts.v_blank_start - 1
    /\ interrupts.h_counter = interrupts.h_blank_start - 1
    /\ interrupts.enabled = 0

\* VdpInterruptController::tick, up to PollTail cycles into the VBlank; with
\* no DMA-complete and no sprite-overflow signal the queue stays short
StatusTick ==
    /\ \/ interrupts.v_counter < interrupts.v_blank_start
       \/ interrupts.h_counter < PollTail
    /\ interrupts' = TickTimes(interrupts, regs, Burst)
    /\ op' = "tick"
    /\ ret' = None
    /\ OnlyIrq

\* VdpInterruptController::signal_sprite_collision
StatusSignalSpriteCollision ==
    /\ HostPrepares
    /\ interrupts' = signal_sprite_collision(interrupts)
    /\ op' = "signal_sprite_collision"
    /\ ret' = None
    /\ OnlyIrq

\* VdpInterruptController::read_status
IrqReadStatus ==
    /\ HostAwake
    /\ interrupts' = read_status(interrupts)
    /\ op' = "read_status"
    /\ ret' = Some(read_status_result(interrupts))
    /\ OnlyIrq

\* VdpRegisters::read_control_port
StatusReadControlPort ==
    /\ HostAwake
    /\ regs' = read_control_port(regs)
    /\ op' = "read_control_port"
    /\ ret' = Some(read_control_port_result(regs))
    /\ OnlyRegs

\* VdpRegisters::update_interrupt_flags
StatusUpdateInterruptFlags ==
    \E f \in StatusFlagInputs :
       /\ HostPrepares
       /\ regs' = update_interrupt_flags(regs, f[1], f[2], f[3])
       /\ op' = "update_interrupt_flags"
       /\ ret' = None
       /\ OnlyRegs

\* VdpRegisters::update_sprite_flags
StatusUpdateSpriteFlags ==
    /\ HostPrepares
    /\ regs' = update_sprite_flags(regs, TRUE, TRUE)
    /\ op' = "update_sprite_flags"
    /\ ret' = None
    /\ OnlyRegs

\* VdpRegisters::write_reg : R1 = 0xC0 enables the port-driven DMA
StatusWriteReg ==
    /\ HostPrepares
    /\ regs' = write_reg(regs, 1, 192)
    /\ op' = "write_reg"
    /\ ret' = None
    /\ OnlyRegs

\* VdpRegisters::write_control_port : 0x0000 twice is a VRAM write at 0
StatusWriteControlPort ==
    /\ HostPrepares
    /\ regs' = write_control_port(regs, 0)
    /\ op' = "write_control_port"
    /\ ret' = None
    /\ OnlyRegs

\* VdpRegisters::write_data_port; a port-driven DMA of length 0 wraps to
\* 65535 words, which is not followed here.
StatusWriteDataPort ==
    /\ HostPrepares
    /\ ~(regs.dma_active /\ regs.dma_length = 0)
    /\ regs' = write_data_port(regs, 4369)
    /\ op' = "write_data_port"
    /\ ret' = None
    /\ OnlyRegs

NextStatus ==
    \/ StatusTick
    \/ IrqUpdateFromRegisters
    \/ StatusSignalSpriteCollision
    \/ IrqReadStatus
    \/ StatusReadControlPort
    \/ StatusUpdateInterruptFlags
    \/ StatusUpdateSpriteFlags
    \/ StatusWriteReg
    \/ StatusWriteControlPort
    \/ StatusWriteDataPort

SpecStatus == Init /\ [][NextStatus]_vars

PortRegWrites == {<<0, 16>>, <<23, 64>>, <<19, 1>>}

\* Byte written to the control port: 0x40 (four writes select CRAM, read).
PortControlBytes == {64}

\* Byte written to the data port.
PortDataBytes == {17}

\* The interrupt controller's flags that tick and the sprite engine raise,
\* each with the flag of the CPU's status byte that stands for it.
RaisedFlags ==
    {<<I_VBLANK, R_VBLANK>>, <<I_HBLANK, R_HBLANK>>, <<I_SCANLINE_IRQ, R_LINE_IRQ>>,
     <<I_SPRITE_OVERFLOW, R_SPRITE_OVERFLOW>>, <<I_SPRITE_COLLISION, R_SPRITE_COLLISION>>}

\* The CPU programs the VDP before the first cycle: first the registers,
\* then initialize, then the ports.
PortPrepares == vdp.cycles_elapsed = 0 /\ interrupts.cycle_counter = 0
PortsUntouched ==
    /\ ~regs.address_latch
    /\ regs.current_address = VdpAddress(0, VRAM, FALSE)
    /\ regs.fifo = << >>
PortUninitialized == PortsUntouched /\ interrupts.enabled = 0 /\ ~dma.active

\* The CPU reads the status and resets around the start of HBlank and from
\* the end of the first scanline on.
PortAwake ==
    \/ interrupts.v_counter > 0
    \/ interrupts.h_counter >= cycles_per_line(interrupts) - 1
    \/ /\ interrupts.h_counter >= interrupts.h_blank_start - 1
       /\ interrupts.h_counter <= interrupts.h_blank_start + MaxCycles

\* Vdp::tick, up to MaxCycles cycles into the second scanline; hist gathers
\* the flags of the controller that went up
PortTick ==
    \E ext \in BusBytes :
       /\ interrupts.v_counter = 0 \/ interrupts.h_counter < MaxCycles
       /\ Becomes(Vdp_tick(Self, ext))
       /\ op' = "tick"
       /\ ret' = None
       /\ hist' = [hist EXCEPT !.reset_from = None, !.raised = @ \cup
                     {f \in RaisedFlags : /\ FlagContains(interrupts'.status, f[1])
                                          /\ ~FlagContains(interrupts.status, f[1])}]

\* VdpRegisters::write_reg on the Vdp's register file
PortWriteReg ==
    \E w \in PortRegWrites :
       /\ PortPrepares
       /\ PortUninitialized
       /\ regs' = write_reg(regs, w[1], w[2])
       /\ op' = "write_reg"
       /\ ret' = None
       /\ hist' = [hist EXCEPT !.reset_from = None]
       /\ UNCHANGED <<dma, interrupts, vram, cram, vsram, vdp>>

\* Vdp::initialize
PortInitialize ==
    /\ PortPrepares
    /\ PortsUntouched
    /\ Becomes(initialize(Self))
    /\ op' = "initialize"
    /\ ret' = None
    /\ hist' = [HistSetup(setup_from_registers_result(dma, regs, 0))
                EXCEPT !.reset_from = None]

\* Vdp::bus_write: to the control port until a read is selected, then to
\* the data port (unless the register file has armed a DMA of more or less
\* than one word, which takes the words) until the FIFO holds MaxPortFifo
\* words
PortBusWrite ==
    \E a \in {CONTROL_PORT, DATA_PORT} :
       \E value \in (IF a = CONTROL_PORT THEN PortControlBytes ELSE PortDataBytes) :
          /\ PortPrepares
          /\ IF a = CONTROL_PORT THEN ~regs.current_address.read_mode
             ELSE /\ regs.current_address.read_mode
                  /\ regs.dma_active => regs.dma_length = 1
                  /\ Len(regs.fifo) < MaxPortFifo
          /\ Becomes(bus_write(Self, a, value))
          /\ op' = "bus_write"
          /\ ret' = None
          /\ hist' = [hist EXCEPT !.reset_from = None]

\* Vdp::bus_read of the control port: the CPU reads the status
PortReadStatus ==
    /\ PortAwake
    /\ Becomes(bus_read(Self, CONTROL_PORT))
    /\ op' = "bus_read_status"
    /\ ret' = Some(bus_read_result(Self, CONTROL_PORT))
    /\ hist' = [hist EXCEPT !.raised = {}, !.reset_from = None]

\* Vdp::reset
PortReset ==
    /\ PortAwake
    /\ Becomes(Vdp_reset(Self))
    /\ op' = "reset"
    /\ ret' = None
    /\ hist' = [hist EXCEPT !.dma_ticks = -1, !.aborted = FALSE, !.raised = {},
                            !.reset_from = Some([fifo |-> regs.fifo,
                                                 dma_active |-> dma.active,
                                                 pending |-> interrupts.pending,
                                                 cycle_counter |-> interrupts.cycle_counter,
                                                 v_counter |-> interrupts.v_counter])]

NextPort ==
    \/ PortTick
    \/ PortWriteReg
    \/ PortInitialize
    \/ PortBusWrite
    \/ PortReadStatus
    \/ PortReset

SpecPort == Init /\ [][NextPort]_vars

\* C11: the byte a CPU read of the status port returns has the bit of every
\* flag (VBlank, HBlank, line interrupt, sprite overflow, sprite collision)
\* that has been raised since the last read of the status port.
StatusPortShowsRaisedFlags ==
    [][ op' = "bus_read_status"
        => \A f \in hist.raised : FlagContains(ret'[1], f[2]) ]_vars

\* C11 witness: the tick that brought the beam to the start of HBlank has
\* raised HBlank in the interrupt controller, and the read of the status
\* port that followed returned a byte without the HBlank bit.
StatusPortMissesHBlank ==
    /\ op = "bus_read_status"
    /\ interrupts.h_counter = interrupts.h_blank_start
    /\ FlagContains(interrupts.status, I_HBLANK)
    /\ ~FlagContains(ret[1], R_HBLANK)

\* C17: after Vdp::reset the FIFO is empty, the DMA engine is inactive with
\* no word remaining, the pending-interrupt queue is empty and the
\* horizontal, vertical, cycle and frame counters are 0.
ResetClears ==
    [][ op' = "reset"
        => /\ regs'.fifo = << >>
           /\ ~is_active(dma')
           /\ dma'.words_remaining = 0
           /\ interrupts'.pending = << >>
           /\ interrupts'.h_counter = 0
           /\ interrupts'.v_counter = 0
           /\ interrupts'.cycle_counter = 0
           /\ vdp'.cycles_elapsed = 0
           /\ vdp'.frame_counter = 0 ]_vars

\* C17 witness: a reset has found words in the FIFO, the DMA engine active,
\* an interrupt pending and the beam on the second scanline, and has left
\* all of it cleared.
ResetClearsWitness ==
    /\ op = "reset"
    /\ hist.reset_from # None
    /\ hist.reset_from[1].fifo # << >>
    /\ hist.reset_from[1].dma_active
    /\ hist.reset_from[1].pending # << >>
    /\ hist.reset_from[1].v_counter = 1
    /\ regs.fifo = << >>
    /\ ~dma.active
    /\ interrupts.pending = << >>
    /\ interrupts.cycle_counter = 0

(***************************************************************************)
(* The control port of the register file (VdpRegisters alone): control     *)
(* words, the register write that selects a DMA mode, and reset.           *)
(***************************************************************************)
\* Control words: 0x0000 and 0x0034 (code 0x00), 0x4000 (code 0x40),
\* 0x8F04 (code 0x8F: top bit set, register 15, value 4), 0xC012 (code 0xC0).
ControlWords == {0, 52, 16384, 36612, 49170}

\* Register write: R23 = 0x40 selects the DMA fill.
ControlRegWrites == {<<23, 64>>}

\* VdpRegisters::write_control_port
CtlWriteControlPort ==
    \E value \in ControlWords :
       /\ regs' = write_control_port(regs, value)
       /\ op' = "write_control_port"
       /\ ret' = None
       /\ OnlyRegs

\* VdpRegisters::write_reg
CtlWriteReg ==
    \E w \in ControlRegWrites :
       /\ regs' = write_reg(regs, w[1], w[2])
       /\ op' = "write_reg"
       /\ ret' = None
       /\ OnlyRegs

\* VdpRegisters::reset
CtlReset ==
    /\ regs' = VdpRegisters_reset(regs)
    /\ op' = "reset"
    /\ ret' = None
    /\ OnlyRegs

NextControl == CtlWriteControlPort \/ CtlWriteReg \/ CtlReset

SpecControl == Init /\ [][NextControl]_vars

\* C18: every control-port write toggles the latch flag; the first write of
\* a pair leaves the current address, target and direction as they were, and
\* the second write commits the address assembled from the two writes.
ControlLatchAlternates ==
    [][ op' = "write_control_port"
        => /\ regs'.address_latch = ~regs.address_latch
           /\ ~regs.address_latch => regs'.current_address = regs.current_address
           /\ regs.address_latch
                 => /\ regs'.current_address.addr = BitAnd(regs'.address_buffer, 16383)
                    /\ BitAnd(regs'.address_buffer, 65280) = regs.address_buffer
      ]_vars

\* C18 witness: the second write of a pair has committed a new address,
\* target and direction (CRAM, read, address 0x34) and cleared the latch.
ControlLatchAlternatesWitness ==
    /\ op = "write_control_port"
    /\ ~regs.address_latch
    /\ regs.current_address = VdpAddress(52, CRAM, TRUE)

\* C19: a control word whose code has its top bit set writes the register
\* it names (bits 12-8) with its low byte and bypasses the latch: the latch
\* flag and the current address, target and direction stay as they were.
ControlDirectRegisterWrite ==
    \A value \in ControlWords :
       value >= 32768
       => LET r2 == write_control_port(regs, value)
          IN /\ r2.regs[BitAnd(Shr(value, 8), 31)] = BitAnd(value, 255)
             /\ r2.address_latch = regs.address_latch
             /\ r2.current_address = regs.current_address

\* C19 witness: the word 0x8F04 has been taken as the first word of a pair:
\* the latch is set, the code buffer holds 0x8F and register 15 still holds 2.
ControlWordLatched ==
    /\ op = "write_control_port"
    /\ regs.address_latch
    /\ regs.code_buffer = 143
    /\ regs.address_buffer = 1024
    /\ regs.regs[15] = 2

\* C20: from a cleared latch, for each of VRAM, CRAM and VSRAM and for each
\* of read and write there is an operation code whose two-word control
\* sequence leaves current_address with that target and that direction.
ControlSelectsEveryTarget ==
    ~regs.address_latch
    => \A access_type \in {VRAM, CRAM, VSRAM}, read_mode \in BOOLEAN :
          \E code \in 0..255 :
             LET r2 == write_control_port(write_control_port(regs, Shl(code, 8)), 0)
             IN /\ r2.current_address.access_type = access_type
                /\ r2.current_address.read_mode = read_mode

\* C20 witness: a completed control sequence has selected VSRAM for writing.
ControlSelectsVsramWrite ==
    /\ op = "write_control_port"
    /\ ~regs.address_latch
    /\ regs.current_address.access_type = VSRAM
    /\ ~regs.current_address.read_mode

(***************************************************************************)
(* The interrupt controller followed through whole frames.  The host       *)
(* configures the controller before the first cycle and then calls tick in *)
(* a loop, looking at the controller each time the beam reaches the start  *)
(* of HBlank, the end of the line the video-mode tables give for the       *)
(* standard, and the start of a line.  It takes HBlank events off the      *)
(* queue as soon as they are raised and leaves the others pending.         *)
(***************************************************************************)
\* VdpVideoMode::create_ntsc_320x224 / create_pal_320x240 : h_total_cycles
TableCyclesPerLine(is_pal) == IF is_pal THEN 424 ELSE 342

\* Register files the host configures the controller from: R0 (0x10 HBlank,
\* 0x08 line interrupt), R1 (0x20 VBlank), R10 (line), R12 (0x02 interlace).
FrameRegFile(r0, r1, r10, r12) ==
    write_reg(write_reg(write_reg(write_reg(VdpRegisters_new, 0, r0), 1, r1), 10, r10), 12, r12)

FrameRegFiles ==
    { FrameRegFile(24, 32, 0, 0),
      FrameRegFile(24, 0, 4, 2),
      FrameRegFile(0, 32, 0, 0) }

\* The cycles of a line at which the host looks at the controller.
FrameStops(i) ==
    {i.h_blank_start, TableCyclesPerLine(i.is_pal), cycles_per_line(i)}

\* The number of tick calls up to the next stop.
FrameBurst(i) ==
    LET ahead == {s \in FrameStops(i) : s > i.h_counter}
    IN (CHOOSE s \in ahead : \A t \in ahead : s <= t) - i.h_counter

\* The events of one type in the queue, and the cycles they were raised at.
PendingOf(i, irq_type) == SelectSeq(i.pending, LAMBDA e : e.irq_type = irq_type)
RaisedAt(i, irq_type) == {i.pending[k].timestamp : k \in
                             {j \in 1..Len(i.pending) : i.pending[j].irq_type = irq_type}}

\* VdpInterruptController::update_from_registers, before the first cycle
FrameUpdateFromRegisters ==
    \E r \in FrameRegFiles :
       /\ interrupts.cycle_counter = 0
       /\ op = "new"
       /\ interrupts' = update_from_registers(interrupts, r)
       /\ regs' = r
       /\ op' = "update_from_registers"
       /\ ret' = None
       /\ UNCHANGED <<dma, vram, cram, vsram, vdp, hist>>

\* VdpInterruptController::tick, up to the next stop, once the controller
\* is configured
FrameTick ==
    /\ op # "new"
    /\ interrupts.cycle_counter
         < MaxFrames * cycles_per_line(interrupts) * total_lines(interrupts)
    /\ PendingOf(interrupts, HBlank) = << >>
    /\ interrupts' = TickTimes(interrupts, regs, FrameBurst(interrupts))
    /\ op' = "tick"
    /\ ret' = None
    /\ OnlyIrq

\* VdpInterruptController::clear_interrupts(HBlank)
FrameClearInterrupts ==
    /\ PendingOf(interrupts, HBlank) # << >>
    /\ interrupts' = clear_interrupts(interrupts, HBlank)
    /\ op' = "clear_interrupts"
    /\ ret' = None
    /\ OnlyIrq

NextFrame ==
    \/ FrameUpdateFromRegisters
    \/ FrameTick
    \/ FrameClearInterrupts

SpecFrame == Init /\ [][NextFrame]_vars

\* C12: whenever a tick brings the horizontal counter to the blanking
\* threshold the HBlank status bit is set, and whenever a tick brings the
\* vertical counter to the visible height the VBlank status bit is set,
\* whether or not the interrupt is enabled.
BlankStatusRaised ==
    op = "tick" =>
       /\ interrupts.h_counter = interrupts.h_blank_start
            => FlagContains(interrupts.status, I_HBLANK)
       /\ (interrupts.v_counter = interrupts.v_blank_start /\ interrupts.h_counter = 0)
            => FlagContains(interrupts.status, I_VBLANK)

\* C12 witness: with the VBlank interrupt disabled, the tick that brought
\* the beam to the first blanked line has left the VBlank status bit clear.
BlankStatusMissing ==
    /\ op = "tick"
    /\ ~FlagContains(interrupts.enabled, I_VBLANK)
    /\ interrupts.v_counter = interrupts.v_blank_start
    /\ interrupts.h_counter = 0
    /\ ~FlagContains(interrupts.status, I_VBLANK)

\* C13: a step puts a VBlank, HBlank or Scanline event in the pending queue
\* only while the interrupt of that type is enabled.
TimingEventsOnlyWhileEnabled ==
    [][ \A t \in {<<VBlank, I_VBLANK>>, <<HBlank, I_HBLANK>>, <<Scanline, I_SCANLINE_IRQ>>} :
           Len(PendingOf(interrupts', t[1])) > Len(PendingOf(interrupts, t[1]))
              => FlagContains(interrupts.enabled, t[2]) ]_vars

\* C13 witness: with HBlank and the line interrupt enabled and VBlank not,
\* the beam has passed the HBlank of the first blanked line; a line
\* interrupt and an HBlank event are pending and no VBlank event is.
TimingEventsOnlyWhileEnabledWitness ==
    /\ op = "tick"
    /\ interrupts.enabled = I_HBLANK + I_SCANLINE_IRQ
    /\ interrupts.v_counter = interrupts.v_blank_start
    /\ interrupts.h_counter = interrupts.h_blank_start
    /\ PendingOf(interrupts, Scanline) # << >>
    /\ PendingOf(interrupts, HBlank) # << >>
    /\ PendingOf(interrupts, VBlank) = << >>

\* C14: with the VBlank interrupt enabled, the VBlank events raised so far
\* are one per frame, each raised at the tick that brought the vertical
\* counter to the visible height (224 NTSC, 240 PAL).
VBlankOncePerFrame ==
    FlagContains(interrupts.enabled, I_VBLANK) =>
       LET line == cycles_per_line(interrupts)
           frame == line * total_lines(interrupts)
           first == (IF interrupts.is_pal THEN 240 ELSE 224) * line
       IN /\ RaisedAt(interrupts, VBlank)
               = {c \in {first + k * frame : k \in 0..MaxFrames} :
                     c <= interrupts.cycle_counter}
          /\ Len(PendingOf(interrupts, VBlank))
               = Cardinality(RaisedAt(interrupts, VBlank))

\* C14 witness: in the second frame, past the visible height, two VBlank
\* events have been raised.
VBlankOncePerFrameWitness ==
    /\ FlagContains(interrupts.enabled, I_VBLANK)
    /\ interrupts.cycle_counter
         > cycles_per_line(interrupts) * total_lines(interrupts)
    /\ interrupts.v_counter > interrupts.v_blank_start
    /\ Len(PendingOf(interrupts, VBlank)) = 2

\* C15: with the line interrupt enabled for line L, the line interrupts
\* raised so far are one for each time the current line (the vertical
\* counter, doubled when interlaced) has become L, each raised at the tick
\* that began that line.
LineInterruptOncePerFrame ==
    FlagContains(interrupts.enabled, I_SCANLINE_IRQ) =>
       LET line == cycles_per_line(interrupts)
           lines == total_lines(interrupts)
           CurrentLine(v) == IF interrupts.is_interlaced THEN 2 * v ELSE v
           begun == {n \in 1..(interrupts.cycle_counter \div line) :
                        CurrentLine(n % lines) = interrupts.scanline_irq_line}
       IN /\ RaisedAt(interrupts, Scanline) = {n * line : n \in begun}
          /\ Len(PendingOf(interrupts, Scanline)) = Cardinality(begun)

\* C15 witness: interlaced, line 4 programmed; in the second frame, past
\* the third scanline, two line interrupts have been raised.
LineInterruptOncePerFrameWitness ==
    /\ FlagContains(interrupts.enabled, I_SCANLINE_IRQ)
    /\ interrupts.is_interlaced
    /\ interrupts.scanline_irq_line = 4
    /\ interrupts.cycle_counter
         > cycles_per_line(interrupts) * total_lines(interrupts)
    /\ interrupts.v_counter = 3
    /\ Len(PendingOf(interrupts, Scanline)) = 2

\* C16: the horizontal counter returns to 0 every 342 ticks under NTSC and
\* every 424 ticks under PAL, and the vertical counter returns to 0 every
\* 262 lines under NTSC and every 313 lines under PAL.
CountersWrap ==
    LET line == IF interrupts.is_pal THEN 424 ELSE 342
        lines == IF interrupts.is_pal THEN 313 ELSE 262
    IN /\ interrupts.h_counter = interrupts.cycle_counter % line
       /\ interrupts.v_counter = (interrupts.cycle_counter \div line) % lines

\* C16 witness: under PAL, 424 ticks after construction the horizontal
\* counter stands at 424 and the beam is still on the first line.
PalLineOverruns ==
    /\ interrupts.is_pal
    /\ op = "tick"
    /\ interrupts.cycle_counter = 424
    /\ interrupts.h_counter = 424
    /\ interrupts.v_counter = 0

(***************************************************************************)
(* The colour and scroll memories written directly (Cram and Vsram alone). *)
(***************************************************************************)
\* CRAM indices and VSRAM byte offsets the host writes to: in range, and
\* the same plus the size of the memory.
StoreCramIndices == {5, 6, 70}
StoreVsramOffsets == {10, 12, 90}

\* The values written: 0x0000, 0x0222, 0x0EEE.
StoreWords == {0, 546, 3822}

OnlyStore == UNCHANGED <<regs, dma, interrupts, vram, vdp>>

\* Cram::write
StoreCramWrite ==
    \E index \in StoreCramIndices, value \in StoreWords :
       /\ cram' = Cram_write(cram, index, value)
       /\ op' = "cram_write"
       /\ ret' = None
       /\ hist' = [hist EXCEPT !.args = <<index, value>>]
       /\ UNCHANGED vsram
       /\ OnlyStore

\* Vsram::write16
StoreVsramWrite ==
    \E addr \in StoreVsramOffsets, value \in StoreWords :
       /\ vsram' = Vsram_write16(vsram, addr, value)
       /\ op' = "vsram_write16"
       /\ ret' = None
       /\ hist' = [hist EXCEPT !.args = <<addr, value>>]
       /\ UNCHANGED cram
       /\ OnlyStore

NextStore ==
    \/ StoreCramWrite
    \/ StoreVsramWrite

SpecStore == Init /\ [][NextStore]_vars

\* C22: writing a value to CRAM index 70 leaves CRAM as writing it to
\* index 6 does, and writing a word to VSRAM byte offset 90 leaves VSRAM as
\* writing it to byte offset 10 does.
StorageWritesWrap ==
    \A value \in StoreWords :
       /\ Cram_write(cram, 70, value) = Cram_write(cram, 6, value)
       /\ Vsram_write16(vsram, 90, value) = Vsram_write16(vsram, 10, value)

\* C22 witness: a non-zero colour has been written to index 70 of a CRAM
\* whose entry 6 held another colour, and entry 6 keeps the old colour.
StorageWriteDropped ==
    /\ op = "cram_write"
    /\ hist.args[1] = 70
    /\ hist.args[2] # 0
    /\ Cram_read(cram, 6) # 0
    /\ Cram_read(cram, 70) # hist.args[2]

(***************************************************************************)
(* The Vdp driven by the CPU through its ports alone, the beam standing    *)
(* still: byte writes to the control port (0xC00004 / 0xC00006) and to the *)
(* data port (0xC00000 / 0xC00002), byte reads of the data port, and the   *)
(* auto-increment register set through the register file.                  *)
(***************************************************************************)
\* Bytes for the four port addresses.  bus_write decodes addr & 0xFC, so
\* 0xC00006 and 0xC00002 fall in the same arms as 0xC00004 and 0xC00000.
\* The first byte of a control pair becomes the code of the next pair
\* (0x00 VRAM write, 0x40 CRAM read, 0x80 VSRAM write), the second the low
\* byte of the address (0x64).
DataPortBytes ==
    [a \in {DATA_PORT, DATA_PORT + 2, CONTROL_PORT, CONTROL_PORT + 2} |->
       CASE a = CONTROL_PORT + 2 -> {0, 64, 128}
         [] a = CONTROL_PORT -> {100}
         [] a = DATA_PORT -> {17}
         [] a = DATA_PORT + 2 -> {34}]

\* Values for register 15 (auto-increment).
DataSteps == {2, 32}

\* The memory cells that hold data.
Stored == Cardinality(DOMAIN vram) + Cardinality(DOMAIN vsram.data)

\* Vdp.regs.write_reg(15, step), before the ports are used
DataWriteReg ==
    \E step \in DataSteps :
       /\ op = "new"
       /\ regs' = write_reg(regs, 15, step)
       /\ op' = "write_reg"
       /\ ret' = None
       /\ hist' = [hist EXCEPT !.args = <<15, step>>]
       /\ UNCHANGED <<dma, interrupts, vram, cram, vsram, vdp>>

\* Bus::write8 -> Vdp::bus_write, while fewer than MaxStored cells are
\* filled: a control pair is written to 0xC00006 then 0xC00004, and in read
\* mode the host leaves at most one word waiting in the FIFO
DataBusWrite ==
    \E a \in DOMAIN DataPortBytes :
       \E value \in DataPortBytes[a] :
          /\ Stored < MaxStored
          /\ a = CONTROL_PORT + 2 => ~regs.address_latch
          /\ a = CONTROL_PORT => regs.address_latch
          /\ a \in {DATA_PORT, DATA_PORT + 2} /\ regs.current_address.read_mode
                => regs.fifo = << >>
          /\ Becomes(bus_write(Self, a, value))
          /\ op' = "bus_write"
          /\ ret' = None
          /\ hist' = [hist EXCEPT !.args = <<a, value>>]

\* Bus::read8 -> Vdp::bus_read of the data port, in read mode
DataBusRead ==
    \E a \in {DATA_PORT, DATA_PORT + 2} :
       /\ regs.current_address.read_mode
       /\ Becomes(bus_read(Self, a))
       /\ op' = "bus_read"
       /\ ret' = Some(bus_read_result(Self, a))
       /\ hist' = [hist EXCEPT !.args = <<a>>]

NextData ==
    \/ DataWriteReg
    \/ DataBusWrite
    \/ DataBusRead

SpecData == Init /\ [][NextData]_vars

\* The word a byte write to the data port (either address) hands to the
\* register file.
WrittenWord(r, value) == BitOr(BitAnd(r.data_buffer, 65280), value)

\* C21: in write mode with no DMA active, a write to the data port stores
\* the written word in the selected memory at the current address and then
\* advances the current address by the value of register 15 (as long as
\* that stays inside the memory).
DataWriteStoresAndAdvances ==
    [][ ( /\ op' = "bus_write"
          /\ hist'.args[1] \in {DATA_PORT, DATA_PORT + 2}
          /\ ~regs.current_address.read_mode
          /\ ~regs.dma_active )
        => LET word == WrittenWord(regs, hist'.args[2])
               addr == regs.current_address.addr
               ty == regs.current_address.access_type
               size == CASE ty = VRAM -> 16384
                         [] ty = CRAM -> 64
                         [] ty = VSRAM -> VSRAM_SIZE_BYTES
           IN /\ CASE ty = VRAM -> Vram_read16(vram', addr) = word
                   [] ty = CRAM -> Cram_read(cram', addr) = BitAnd(word, 3822)
                   [] ty = VSRAM -> Vsram_read16(vsram', addr) = word
              /\ \/ regs'.current_address.addr = addr + regs.regs[15]
                 \/ addr + regs.regs[15] >= size ]_vars

\* C21 witness: the control port has selected a VSRAM write at address
\* 0x64; the word then written to the data port is nowhere in VSRAM, and
\* the current address stands at 0x26.
DataWordDropped ==
    /\ op = "bus_write"
    /\ hist.args = <<DATA_PORT, 17>>
    /\ regs.address_buffer = 100
    /\ regs.current_address = VdpAddress(38, VSRAM, FALSE)
    /\ regs.regs[15] = 2
    /\ ~regs.dma_active
    /\ regs.data_buffer = 17
    /\ vsram.data = MemEmpty

\* C23: the current address is below 64 when the target is CRAM and below
\* 40 when the target is VSRAM.
AddressInRange ==
    /\ regs.current_address.access_type = CRAM => regs.current_address.addr < 64
    /\ regs.current_address.access_type = VSRAM => regs.current_address.addr < 40

\* C23 witness: a control word has committed a CRAM read at address 0x64.
AddressOutOfRange ==
    /\ op = "bus_write"
    /\ hist.args[1] = CONTROL_PORT
    /\ regs.current_address = VdpAddress(100, CRAM, TRUE)

(***************************************************************************)
(* A sprite built, encoded to its SAT entry and decoded again (Sprite      *)
(* alone).  ret holds the value the last call returned; hist.args keeps    *)
(* the sprite that was encoded.                                            *)
(***************************************************************************)
\* Positions at the ends of the 8-bit range around the offset, tile indices
\* at the ends of the 11-bit field.
CodecYs == {-128, 127}
CodecXs == {0}
CodecSizes == (1..4) \X (1..4)
CodecTiles == {0, 100, 2047}
CodecPalettes == 0..3

\* Sprite::with_params
CodecWithParams ==
    \E x \in CodecXs, y \in CodecYs, size \in CodecSizes, tile_index \in CodecTiles,
       palette \in CodecPalettes, priority \in BOOLEAN, flip_h \in BOOLEAN, flip_v \in BOOLEAN :
       /\ op = "new"
       /\ op' = "with_params"
       /\ ret' = Some(with_params(x, y, size, tile_index, palette, priority,
                                  flip_h, flip_v, FALSE))
       /\ UNCHANGED <<regs, dma, interrupts, vram, cram, vsram, vdp, hist>>

\* Sprite::to_bytes
CodecToBytes ==
    /\ op = "with_params"
    /\ op' = "to_bytes"
    /\ ret' = Some(to_bytes(ret[1]))
    /\ hist' = [hist EXCEPT !.args = <<ret[1]>>]
    /\ UNCHANGED <<regs, dma, interrupts, vram, cram, vsram, vdp>>

\* Sprite::from_bytes
CodecFromBytes ==
    /\ op = "to_bytes"
    /\ op' = "from_bytes"
    /\ ret' = Some(from_bytes(ret[1], FALSE))
    /\ UNCHANGED <<regs, dma, interrupts, vram, cram, vsram, vdp, hist>>

NextCodec ==
    \/ CodecWithParams
    \/ CodecToBytes
    \/ CodecFromBytes

SpecCodec == Init /\ [][NextCodec]_vars

\* C27: a sprite with Y = -128 or Y = 127 and X = 0, encoded to its 8-byte
\* SAT form and decoded, has the X, Y, size, tile index, palette, priority
\* and flip flags it had.
SpriteRoundTrip ==
    op = "from_bytes" =>
       LET original == hist.args[1]
           decoded == ret[1]
       IN /\ decoded.x = original.x
          /\ decoded.y = original.y
          /\ decoded.size = original.size
          /\ decoded.tile_index = original.tile_index
          /\ decoded.palette = original.palette
          /\ decoded.priority = original.priority
          /\ decoded.flip_horizontal = original.flip_horizontal
          /\ decoded.flip_vertical = original.flip_vertical

\* C27 witness: a 4x3 sprite at X = 0, Y = -128 with tile 2047, palette 3,
\* priority and both flips set has been encoded and decoded.
SpriteRoundTripWitness ==
    /\ op = "from_bytes"
    /\ hist.args[1].y = -128
    /\ hist.args[1].x = 0
    /\ hist.args[1].size = <<4, 3>>
    /\ hist.args[1].tile_index = 2047
    /\ hist.args[1].palette = 3
    /\ hist.args[1].priority
    /\ hist.args[1].flip_horizontal
    /\ hist.args[1].flip_vertical
    /\ ret[1].y = -128
    /\ ret[1].size = <<4, 3>>

(***************************************************************************)
(* The sprite attribute table read from VRAM (SpriteTable and Vram alone). *)
(* The host writes the byte that holds the link of some entries, then has  *)
(* the table loaded.                                                       *)
(***************************************************************************)
\* The entries whose link the host writes, and the bytes it writes there:
\* links 1, 2 and 79, link 80 (past the table), 0x81 (link 1 with the unused
\* top bit set) and 0.
SatEntries == {0, 1, 2, 79}
SatLinkBytes == {0, 1, 2, 79, 80, 129}

\* The SAT entry of the given index, decoded.
SatEntry(t, vr, index) ==
    from_bytes([k \in 1..8 |->
                  Vram_read8(vr, t.base_address + index * SPRITE_ENTRY_SIZE + k - 1)],
               t.high_color_mode)

\* Vram::write8 of the third byte of an entry, before the table is loaded
SatWrite ==
    \E index \in SatEntries, value \in SatLinkBytes :
       /\ op # "load_from_vram"
       /\ vram' = Vram_write8(vram, vdp.sprite_table.base_address
                                      + index * SPRITE_ENTRY_SIZE + 2, value)
       /\ op' = "vram_write8"
       /\ ret' = None
       /\ UNCHANGED <<regs, dma, interrupts, cram, vsram, vdp, hist>>

\* SpriteTable::load_from_vram
SatLoad ==
    /\ op # "load_from_vram"
    /\ vdp' = [vdp EXCEPT !.sprite_table = load_from_vram(vdp.sprite_table, vram)]
    /\ op' = "load_from_vram"
    /\ ret' = None
    /\ UNCHANGED <<regs, dma, interrupts, vram, cram, vsram, hist>>

NextSat ==
    \/ SatWrite
    \/ SatLoad

SpecSat == Init /\ [][NextSat]_vars

\* C24: the traversal of the SAT ends; the list it leaves starts with entry
\* 0, continues each time with the entry the link of the one before names,
\* has no entry with link 0 except possibly the last, ends with an entry
\* whose link is 0 unless the link leaves the table or 80 entries were
\* read, and holds at most 80 sprites.
SatTraversal ==
    op = "load_from_vram" =>
       LET t == vdp.sprite_table
           loaded == t.sprites
           n == Len(loaded)
       IN /\ n >= 1
          /\ n <= MAX_SPRITES_PER_FRAME
          /\ t.sprite_count = n
          /\ loaded[1] = SatEntry(t, vram, 0)
          /\ \A k \in 1..(n - 1) :
                /\ loaded[k].link # 0
                /\ loaded[k + 1] = SatEntry(t, vram, loaded[k].link)
          /\ \/ loaded[n].link = 0
             \/ loaded[n].link >= MAX_SPRITES_PER_FRAME
             \/ n = MAX_SPRITES_PER_FRAME

\* C24 witness: entry 0 names entry 1, entries 1 and 2 name each other (a
\* cycle), and the traversal has ended with 80 sprites.
SatCycleEnds ==
    /\ op = "load_from_vram"
    /\ SatEntry(vdp.sprite_table, vram, 0).link = 1
    /\ SatEntry(vdp.sprite_table, vram, 1).link = 2
    /\ SatEntry(vdp.sprite_table, vram, 2).link = 1
    /\ Len(vdp.sprite_table.sprites) = MAX_SPRITES_PER_FRAME

(***************************************************************************)
(* The per-line sprite counts (SpriteTable alone): sprites are added to    *)
(* the table and the counts are calculated.                                *)
(***************************************************************************)
\* The most sprites added: one more than 21, the first overflowing count.
MaxLineSprites == 22

\* The sprites added: an empty one (neither valid nor visible, at line 0),
\* one of 8 lines from line 50 and one of 32 lines from line 54.
LineSprites ==
    << Sprite_new,
       with_params(10, 50, <<1, 1>>, 0, 0, FALSE, FALSE, FALSE, FALSE),
       with_params(20, 54, <<1, 4>>, 0, 0, TRUE, FALSE, FALSE, FALSE) >>

\* The position in LineSprites of the sprite added last (0 for none).
LastAdded(t) ==
    IF t.sprites = << >> THEN 0
    ELSE CHOOSE k \in 1..Len(LineSprites) : LineSprites[k] = t.sprites[Len(t.sprites)]

\* SpriteTable::add_sprite ; the sprites are added in the order of
\* LineSprites, before the counts are calculated
LineAddSprite ==
    \E k \in 1..Len(LineSprites) :
       /\ op # "calculate_active_sprites"
       /\ Len(vdp.sprite_table.sprites) < MaxLineSprites
       /\ k >= LastAdded(vdp.sprite_table)
       /\ vdp' = [vdp EXCEPT !.sprite_table = add_sprite(@, LineSprites[k])]
       /\ op' = "add_sprite"
       /\ ret' = <<add_sprite_result(vdp.sprite_table, LineSprites[k])>>
       /\ UNCHANGED <<regs, dma, interrupts, vram, cram, vsram, hist>>

\* SpriteTable::calculate_active_sprites for the visible lines
LineCalculate ==
    /\ op = "add_sprite"
    /\ vdp' = [vdp EXCEPT !.sprite_table =
                  calculate_active_sprites(@, vdp.video_mode.visible_height)]
    /\ op' = "calculate_active_sprites"
    /\ ret' = None
    /\ UNCHANGED <<regs, dma, interrupts, vram, cram, vsram, hist>>

NextLine ==
    \/ LineAddSprite
    \/ LineCalculate

SpecLine == Init /\ [][NextLine]_vars

\* The valid, visible sprites of the table whose lines include the given one.
SpritesCovering(t, line) ==
    {k \in 1..Len(t.sprites) :
        /\ t.sprites[k].valid
        /\ t.sprites[k].visible
        /\ t.sprites[k].y <= line
        /\ line < t.sprites[k].y + height_pixels(t.sprites[k])}

\* C25: after calculate_active_sprites the count of every visible line is
\* the number of valid visible sprites covering the line, limited to 20,
\* and overflow_line is the first line covered by more than 20, if any.
LineCounts ==
    op = "calculate_active_sprites" =>
       LET t == vdp.sprite_table
           lines == 0..(vdp.video_mode.visible_height - 1)
           covering == [l \in lines |-> Cardinality(SpritesCovering(t, l))]
           over == {l \in lines : covering[l] > MAX_SPRITES_PER_LINE}
       IN /\ \A l \in lines :
                MemGet(t.active_sprites_per_line, l) =
                   IF covering[l] < MAX_SPRITES_PER_LINE
                   THEN covering[l] ELSE MAX_SPRITES_PER_LINE
          /\ IF over = {} THEN t.overflow_line = None
             ELSE /\ t.overflow_line # None
                  /\ t.overflow_line[1] \in over
                  /\ \A l \in over : t.overflow_line[1] <= l

\* C25 witness: 21 sprites cover line 54 and fewer cover line 50; the
\* counts were calculated and the overflow line is 54.
LineOverflowAt54 ==
    /\ op = "calculate_active_sprites"
    /\ Cardinality(SpritesCovering(vdp.sprite_table, 54)) = MAX_SPRITES_PER_LINE + 1
    /\ Cardinality(SpritesCovering(vdp.sprite_table, 50)) \in 1..MAX_SPRITES_PER_LINE
    /\ vdp.sprite_table.overflow_line = Some(54)
    /\ \E k \in 1..Len(vdp.sprite_table.sprites) : ~vdp.sprite_table.sprites[k].valid

(***************************************************************************)
(* framebuffer.rs, modes.rs, planes.rs, renderer.rs : the renderer.        *)
(*                                                                         *)
(* A pixel is the tuple <<alpha, red, green, blue>> of the four bytes of   *)
(* its 0xAARRGGBB word.  Every step of a frame (clear, plane and sprite    *)
(* rendering, merge, shadow/highlight, interlace) writes a pixel from      *)
(* values of its own column only, so a frame buffer is kept as the         *)
(* function from the coordinates <<x, y>> of the columns of KeptColumns    *)
(* to their pixels, with every line of those columns.                      *)
(***************************************************************************)
\* The columns kept: the two edges of the first tile, the first column
\* after it, a column further right and the last column of a 256-pixel line.
KeptColumns == {0, 7, 8, 160, 255}

Argb(a, r, g, b) == <<a, r, g, b>>

\* The coordinates kept of a buffer of the given size.
Kept(width, height) ==
    {c \in KeptColumns \X (0..(height - 1)) : c[1] < width}

\* FrameBuffer::new : every pixel 0xFF000000
FrameBuffer_new(width, height) ==
    [ width |-> width,
      height |-> height,
      pixels |-> [c \in Kept(width, height) |-> Argb(255, 0, 0, 0)],
      dirty |-> TRUE ]

\* FrameBuffer::clear : color | 0xFF000000 in every pixel
FrameBuffer_clear(fb, color) ==
    [fb EXCEPT !.pixels = [c \in DOMAIN fb.pixels |-> Argb(255, color[2], color[3], color[4])],
               !.dirty = TRUE]

\* FrameBuffer::get_pixel
get_pixel(fb, x, y) ==
    IF x < fb.width /\ y < fb.height THEN Some(fb.pixels[<<x, y>>]) ELSE None

\* FrameBuffer::resize
FrameBuffer_resize(fb, new_width, new_height) ==
    IF new_width = fb.width /\ new_height = fb.height THEN fb
    ELSE [ width |-> new_width,
           height |-> new_height,
           pixels |-> [c \in Kept(new_width, new_height) |->
                         IF c[1] < fb.width /\ c[2] < fb.height
                         THEN fb.pixels[c] ELSE Argb(255, 0, 0, 0)],
           dirty |-> TRUE ]

\* modes.rs : VdpVideoMode::new_default (NTSC 320x224, H40 and display on)
Mode_new_default ==
    [ visible_width |-> 320,
      visible_height |-> 224,
      display_enabled |-> TRUE,
      interlace |-> FALSE,
      shadow_highlight |-> FALSE ]

\* modes.rs : VdpVideoMode::from_registers ; the resolution is found as in
\* video_modes.rs, the flags come from registers 1 and 12
Mode_from_registers(r, is_pal) ==
    LET resolution == VdpVideoMode_from_registers(r, is_pal)
    IN [ visible_width |-> resolution.visible_width,
         visible_height |-> resolution.visible_height,
         display_enabled |-> (regs_get(r, 1) \div 64) % 2 = 1,
         interlace |-> (regs_get(r, 12) \div 2) % 4 >= 2,
         shadow_highlight |-> (regs_get(r, 12) \div 8) % 2 = 1 ]

\* the colour of a CRAM word as renderer.rs, planes.rs and sprite.rs convert
\* it: three bits each of red (bits 0-2), green (4-6), blue (8-10), times 36
Rgb888(color_9bit) ==
    << (color_9bit % 8) * 36,
       ((color_9bit \div 16) % 8) * 36,
       ((color_9bit \div 256) % 8) * 36 >>

\* VdpRenderer::get_color_from_cram
get_color_from_cram(cr, color_index) ==
    LET rgb == Rgb888(Cram_read(cr, color_index % 64))
    IN Argb(255, rgb[1], rgb[2], rgb[3])

(***************************************************************************)
(* registers.rs : the accessors the planes and the renderer read.  They    *)
(* call them with a get_ prefix (get_background_color, get_plane_size,     *)
(* get_hscroll_a, ...), names registers.rs does not define; each is taken  *)
(* to be the accessor of registers.rs without the prefix.                  *)
(***************************************************************************)
ToI8(x) == IF x >= 128 THEN x - 256 ELSE x

\* VdpRegisters::background_color_index
background_color_index(r) == r.regs[7] % 64

\* VdpRegisters::plane_a_address / plane_b_address / window_address
plane_a_address(r) == r.plane_a_addr
plane_b_address(r) == r.plane_b_addr
window_address(r) == r.window_addr

\* VdpRegisters::hscroll_a / hscroll_b / vscroll_a / vscroll_b
hscroll_a(r) == r.regs[8]
hscroll_b(r) == r.regs[9]
vscroll_a(r) == r.regs[11]
vscroll_b(r) == r.regs[19]

\* VdpRegisters::plane_size : <<width, height>> in tiles
plane_size(r) ==
    LET tiles(code) == CASE code = 0 -> 32 [] code = 1 -> 64 [] code = 2 -> 128 [] OTHER -> 32
    IN <<tiles((r.regs[16] \div 16) % 4), tiles(r.regs[16] % 4)>>

\* VdpRegisters::window_position
window_position(r) == <<ToI8(r.regs[17]), ToI8(r.regs[18])>>

\* high_color_mode, row_scroll_enabled and column_scroll_enabled have no
\* counterpart in registers.rs.  Tiles are taken as 4 bits per pixel and the
\* scroll of a plane as its global one, as the system description has them.
high_color_mode(r) == FALSE
row_scroll_enabled(r) == FALSE
column_scroll_enabled(r) == FALSE

(***************************************************************************)
(* planes.rs : tile entries, planes and the plane manager.                 *)
(***************************************************************************)
\* planes.rs : PlaneType
PlaneA == "A"
PlaneB == "B"
PlaneWindow == "Window"

\* TileEntry::from_word
TileEntry_from_word(word) ==
    [ tile_index |-> word % 2048,
      palette |-> (word \div 8192) % 4,
      priority |-> word >= 32768,
      flip_horizontal |-> (word \div 2048) % 2 = 1,
      flip_vertical |-> (word \div 4096) % 2 = 1 ]

\* TileEntry::get_pixel_color_4bpp ; vram.data[byte_index], even columns in
\* the high half of the byte
get_pixel_color_4bpp(entry, vr, x, y) ==
    LET px == IF entry.flip_horizontal THEN 7 - x ELSE x
        py == IF entry.flip_vertical THEN 7 - y ELSE y
        byte_index == entry.tile_index * 32 + py * 4 + px \div 2
    IN IF byte_index < SIZE_64K
       THEN (IF px % 2 = 0 THEN MemGet(vr, byte_index) \div 16
             ELSE MemGet(vr, byte_index) % 16)
       ELSE 0

\* TileEntry::get_pixel_color_8bpp
get_pixel_color_8bpp(entry, vr, x, y) ==
    LET px == IF entry.flip_horizontal THEN 7 - x ELSE x
        py == IF entry.flip_vertical THEN 7 - y ELSE y
        pixel_index == entry.tile_index * 64 + py * 8 + px
    IN IF pixel_index < SIZE_64K THEN MemGet(vr, pixel_index) ELSE 0

\* Plane::new
Plane_new(plane_type, r, mode) ==
    LET name_table_addr == CASE plane_type = PlaneA -> plane_a_address(r)
                             [] plane_type = PlaneB -> plane_b_address(r)
                             [] OTHER -> window_address(r)
        size == plane_size(r)
    IN [ plane_type |-> plane_type,
         name_table_addr |-> name_table_addr,
         width_tiles |-> size[1],
         height_tiles |-> size[2],
         width_pixels |-> size[1] * 8,
         height_pixels |-> size[2] * 8,
         enabled |-> IF plane_type = PlaneWindow THEN name_table_addr # 0 ELSE TRUE,
         priority |-> CASE plane_type = PlaneA -> 0
                        [] plane_type = PlaneB -> 1
                        [] OTHER -> 2,
         scroll_x |-> 0,
         scroll_y |-> 0,
         window_x |-> IF plane_type = PlaneWindow THEN window_position(r)[1] ELSE 0,
         window_y |-> IF plane_type = PlaneWindow THEN window_position(r)[2] ELSE 0,
         window_hsplit |-> FALSE,
         window_vsplit |-> FALSE ]

\* Plane::update_scroll
update_scroll(plane, r) ==
    CASE plane.plane_type = PlaneA ->
            [plane EXCEPT !.scroll_x = hscroll_a(r), !.scroll_y = vscroll_a(r)]
      [] plane.plane_type = PlaneB ->
            [plane EXCEPT !.scroll_x = hscroll_b(r), !.scroll_y = vscroll_b(r)]
      [] OTHER ->
            [plane EXCEPT !.scroll_x = 0, !.scroll_y = 0]

\* Plane::read_tile_entry
read_tile_entry(plane, vr, tile_x, tile_y) ==
    IF tile_x >= plane.width_tiles \/ tile_y >= plane.height_tiles THEN None
    ELSE LET entry_addr == plane.name_table_addr + (tile_y * plane.width_tiles + tile_x) * 2
         IN IF entry_addr + 1 < SIZE_64K
            THEN Some(TileEntry_from_word(MemGet(vr, entry_addr + 1) * 256 + MemGet(vr, entry_addr)))
            ELSE None

\* Plane::apply_scroll : <<world_x, world_y>>
apply_scroll(plane, x, y, vs, r, mode) ==
    << (x + plane.scroll_x) % plane.width_pixels,
       (y + plane.scroll_y) % plane.height_pixels >>

\* Plane::get_final_color ; the priority of the plane is or-ed into the top
\* four bits of the alpha byte
get_final_color(plane, cr, color_index, mode, r) ==
    LET rgb == Rgb888(Cram_read(cr, color_index % 64))
        alpha == IF color_index = 0 THEN 0 ELSE 255
    IN Argb(BitOr(alpha, (plane.priority * 16) % 256), rgb[1], rgb[2], rgb[3])

\* Plane::render, the part of the screen it goes through:
\* <<start_x, end_x, start_y, end_y>>, or None where it returns at once
render_region(plane, screen_width, screen_height, r, mode) ==
    IF ~plane.enabled \/ ~mode.display_enabled THEN None
    ELSE IF plane.plane_type = PlaneWindow
    THEN LET wx == window_position(r)[1]
             wy == window_position(r)[2]
         IN IF wx = 0 /\ wy = 0 THEN None
            ELSE Some(<< IF wx < 0 THEN 0 ELSE wx,
                         IF wx < 0 THEN screen_width + wx ELSE screen_width,
                         IF wy < 0 THEN 0 ELSE wy,
                         IF wy < 0 THEN screen_height + wy ELSE screen_height >>)
    ELSE Some(<<0, screen_width, 0, screen_height>>)

\* Plane::render, the body of its loops: the pixel it leaves at <<x, y>>,
\* where current_color is there
render_pixel(plane, current_color, x, y, vr, cr, vs, r, mode, render_priority) ==
    LET world == apply_scroll(plane, x, y, vs, r, mode)
        tile_x == (world[1] \div 8) % plane.width_tiles
        tile_y == (world[2] \div 8) % plane.height_tiles
        found == read_tile_entry(plane, vr, tile_x, tile_y)
    IN IF found = None THEN current_color
       ELSE IF found[1].priority # render_priority THEN current_color
       ELSE
         LET tile_entry == found[1]
             color_index == IF high_color_mode(r)
                            THEN get_pixel_color_8bpp(tile_entry, vr, world[1] % 8, world[2] % 8)
                            ELSE get_pixel_color_4bpp(tile_entry, vr, world[1] % 8, world[2] % 8)
         IN IF color_index = 0 THEN current_color
            ELSE
              LET color == get_final_color(plane, cr, color_index + tile_entry.palette * 16,
                                           mode, r)
                  should_draw ==
                     IF plane.plane_type = PlaneWindow THEN color[1] > 0
                     ELSE current_color[1] = 0 \/ plane.priority < current_color[1] \div 16
              IN IF should_draw THEN color ELSE current_color

\* Plane::render
Plane_render(plane, framebuffer, vr, cr, vs, r, mode, render_priority) ==
    LET region == render_region(plane, framebuffer.width, framebuffer.height, r, mode)
    IN IF region = None THEN framebuffer
       ELSE [framebuffer EXCEPT !.pixels =
               [c \in DOMAIN framebuffer.pixels |->
                  IF /\ c[1] >= region[1][1] /\ c[1] < region[1][2]
                     /\ c[2] >= region[1][3] /\ c[2] < region[1][4]
                  THEN render_pixel(plane, framebuffer.pixels[c], c[1], c[2],
                                    vr, cr, vs, r, mode, render_priority)
                  ELSE framebuffer.pixels[c]]]

\* a plausible slip: plane A is rendered before plane B
PlaneManager_new_a_first(r, mode) ==
    [ plane_a |-> Plane_new(PlaneA, r, mode),
      plane_b |-> Plane_new(PlaneB, r, mode),
      plane_window |-> Plane_new(PlaneWindow, r, mode),
      plane_order |-> <<PlaneA, PlaneB, PlaneWindow>> ]

\* PlaneManager::new
PlaneManager_new(r, mode) ==
    [ plane_a |-> Plane_new(PlaneA, r, mode),
      plane_b |-> Plane_new(PlaneB, r, mode),
      plane_window |-> Plane_new(PlaneWindow, r, mode),
      plane_order |-> <<PlaneB, PlaneA, PlaneWindow>> ]

\* PlaneManager::update
PlaneManager_update(pm, r, mode) ==
    [pm EXCEPT !.plane_a = update_scroll(pm.plane_a, r),
               !.plane_b = update_scroll(pm.plane_b, r)]

(***************************************************************************)
(* vram.rs, sprite.rs : tile pixels and the drawing of one sprite.         *)
(***************************************************************************)
\* Vram::write_tile_4bpp ; tile is the sequence of its 32 bytes
RECURSIVE write_tile_loop(_, _, _, _)
write_tile_loop(m, base, tile, k) ==
    IF k > Len(tile) \/ base + k - 1 >= SIZE_64K THEN m
    ELSE write_tile_loop(MemSet(m, base + k - 1, tile[k]), base, tile, k + 1)

write_tile_4bpp(m, tile_index, tile) == write_tile_loop(m, tile_index * 32, tile, 1)

\* Vram::read_tile_pixel_4bpp : the even pixel is the low nibble
read_tile_pixel_4bpp(m, tile_index, x, y) ==
    LET byte_index == tile_index * 32 + y * 4 + (x \div 2)
    IN IF byte_index < SIZE_64K
       THEN (IF x % 2 = 0 THEN MemGet(m, byte_index) % 16
             ELSE (MemGet(m, byte_index) \div 16) % 16)
       ELSE 0

\* Vram::read_tile_pixel_8bpp
read_tile_pixel_8bpp(m, tile_index, x, y) ==
    LET pixel_index == tile_index * 64 + y * 8 + x
    IN IF pixel_index < SIZE_64K THEN MemGet(m, pixel_index) ELSE 0

\* Sprite::get_pixel_color : None or Some(<<colour index, palette>>)
get_pixel_color(sp, vr, sprite_x, sprite_y) ==
    IF sprite_x >= width_pixels(sp) \/ sprite_y >= height_pixels(sp) THEN None
    ELSE LET tiles_wide == sp.size[1]
             tile_x == sprite_x \div TILE_SIZE
             tile_y == sprite_y \div TILE_SIZE
             px == sprite_x % TILE_SIZE
             py == sprite_y % TILE_SIZE
             pixel_x == IF sp.flip_horizontal THEN TILE_SIZE - 1 - px ELSE px
             pixel_y == IF sp.flip_vertical THEN TILE_SIZE - 1 - py ELSE py
             absolute_tile_index == sp.tile_index + tile_y * tiles_wide + tile_x
             color_index ==
                 IF sp.high_color_mode
                 THEN read_tile_pixel_8bpp(vr, absolute_tile_index, pixel_x, pixel_y)
                 ELSE read_tile_pixel_4bpp(vr, absolute_tile_index, pixel_x, pixel_y)
         IN Some(<<color_index, sp.palette>>)

\* Sprite::render at one coordinate: None when the sprite leaves the pixel
\* of the buffer alone, else Some(colour it sets).  line is None or
\* Some(the only line to draw).
Sprite_render_pixel(sp, screen_width, screen_height, x, y, vr, cr, line) ==
    IF ~sp.valid \/ ~sp.visible \/ is_offscreen(sp, screen_width, screen_height)
    THEN None
    ELSE LET start_line == IF line # None THEN line[1]
                           ELSE (IF sp.y > 0 THEN sp.y ELSE 0)
             end_line == IF line # None THEN line[1] + 1
                         ELSE (IF sp.y + height_pixels(sp) < screen_height
                               THEN sp.y + height_pixels(sp) ELSE screen_height)
             sprite_x == x - sp.x
             sprite_y == y - sp.y
         IN IF ~(y >= start_line /\ y < end_line) \/ ~is_on_line(sp, y)
               \/ sprite_x < 0 \/ sprite_x >= width_pixels(sp)
               \/ x < 0 \/ x >= screen_width \/ y >= screen_height
            THEN None
            ELSE LET pc == get_pixel_color(sp, vr, sprite_x, sprite_y)
                 IN IF pc = None \/ pc[1][1] = 0 THEN None
                    ELSE LET cram_index == IF sp.high_color_mode THEN pc[1][1]
                                           ELSE pc[1][2] * 16 + pc[1][1]
                             rgb == Rgb888(Cram_read(cr, cram_index % 64))
                         IN Some(Argb(255, rgb[1], rgb[2], rgb[3]))

(***************************************************************************)
(* renderer.rs : VdpRenderer.  The debug overlay, which no operation here  *)
(* enables, is left out.                                                   *)
(***************************************************************************)
\* VdpRenderer::new
VdpRenderer_new(video_mode) ==
    [ video_mode |-> video_mode,
      frame_buffer |-> FrameBuffer_new(video_mode.visible_width, video_mode.visible_height),
      render_enabled |-> TRUE,
      show_background |-> TRUE,
      show_planes |-> TRUE,
      show_window |-> TRUE,
      show_sprites |-> TRUE,
      debug_overlay |-> FALSE,
      last_frame_time |-> 0,
      frames_rendered |-> 0 ]

\* VdpRenderer::set_render_flags ; flags is a RenderFlags record
set_render_flags(rd, flags) ==
    [rd EXCEPT !.show_background = flags.show_background,
               !.show_planes = flags.show_planes,
               !.show_window = flags.show_window,
               !.show_sprites = flags.show_sprites,
               !.debug_overlay = flags.debug_overlay]

\* VdpRenderer::resize
VdpRenderer_resize(rd, width, height) ==
    [rd EXCEPT !.frame_buffer = FrameBuffer_resize(rd.frame_buffer, width, height)]

\* the pixel VdpRenderer::merge_framebuffers leaves where the frame holds
\* dst and the other buffer holds src
merge_pixel(dst, src) ==
    LET alpha == src[1]
        src_priority == src[1] \div 16
        dst_priority == dst[1] \div 16
    IN IF alpha > 0
       THEN (IF src_priority > dst_priority \/ dst[1] = 0 THEN src
             ELSE IF src_priority = dst_priority /\ alpha = 255 THEN src
             ELSE dst)
       ELSE dst

\* VdpRenderer::merge_framebuffers
merge_framebuffers(rd, other) ==
    [rd EXCEPT !.frame_buffer.pixels =
        [c \in DOMAIN rd.frame_buffer.pixels |->
            IF get_pixel(other, c[1], c[2]) # None
            THEN merge_pixel(rd.frame_buffer.pixels[c], other.pixels[c])
            ELSE rd.frame_buffer.pixels[c]]]

\* the sprites render_low_priority_sprites (priority FALSE) and
\* render_high_priority_sprites (priority TRUE) draw, in table order
SpritesOfPass(t, priority) ==
    {k \in 1..Len(t.sprites) :
        t.sprites[k].valid /\ t.sprites[k].visible /\ t.sprites[k].priority = priority}

\* the temporary buffer after every sprite of the pass drew into it: a
\* pixel holds what the last sprite in table order that draws there set
sprites_buffer(rd, t, vr, cr, priority) ==
    LET temp == FrameBuffer_new(rd.frame_buffer.width, rd.frame_buffer.height)
        pass == SpritesOfPass(t, priority)
        drawing(c) == {k \in pass :
                          Sprite_render_pixel(t.sprites[k], temp.width, temp.height,
                                              c[1], c[2], vr, cr, None) # None}
    IN [temp EXCEPT !.pixels =
          [c \in DOMAIN temp.pixels |->
              LET ks == drawing(c)
              IN IF ks = {} THEN temp.pixels[c]
                 ELSE LET last == CHOOSE k \in ks : \A j \in ks : j <= k
                      IN Sprite_render_pixel(t.sprites[last], temp.width, temp.height,
                                             c[1], c[2], vr, cr, None)[1]]]

\* VdpRenderer::render_low_priority_sprites
render_low_priority_sprites(rd, t, vr, cr) ==
    merge_framebuffers(rd, sprites_buffer(rd, t, vr, cr, FALSE))

\* VdpRenderer::render_high_priority_sprites
render_high_priority_sprites(rd, t, vr, cr) ==
    merge_framebuffers(rd, sprites_buffer(rd, t, vr, cr, TRUE))

\* one turn of the loop over plane_order of render_low_priority_tiles
\* (render_priority FALSE) and render_high_priority_tiles (TRUE): the
\* temporary buffer after the plane of this type was offered it
plane_pass(rd, pm, plane_type, temp, vr, cr, vs, r, render_priority) ==
    IF plane_type = PlaneA
    THEN (IF rd.show_planes
          THEN Plane_render(pm.plane_a, temp, vr, cr, vs, r, rd.video_mode, render_priority)
          ELSE temp)
    ELSE IF plane_type = PlaneB
    THEN (IF rd.show_planes
          THEN Plane_render(pm.plane_b, temp, vr, cr, vs, r, rd.video_mode, render_priority)
          ELSE temp)
    ELSE (IF rd.show_window
          THEN Plane_render(pm.plane_window, temp, vr, cr, vs, r, rd.video_mode, render_priority)
          ELSE temp)

\* whether the turn of the loop for this plane type renders a plane
plane_shown(rd, plane_type) ==
    IF plane_type = PlaneWindow THEN rd.show_window ELSE rd.show_planes

\* VdpRenderer::update_video_mode : the renderer takes the mode as NTSC
VdpRenderer_update_video_mode(rd, r) ==
    LET new_mode == Mode_from_registers(r, FALSE)
        resized == IF new_mode.visible_width # rd.video_mode.visible_width
                      \/ new_mode.visible_height # rd.video_mode.visible_height
                   THEN FrameBuffer_resize(rd.frame_buffer, new_mode.visible_width,
                                           new_mode.visible_height)
                   ELSE rd.frame_buffer
    IN [rd EXCEPT !.frame_buffer = resized, !.video_mode = new_mode]

\* one channel of apply_shadow_highlight_effect: (c * 1.2).min(255.0)
Brighten(c) == IF (c * 12) \div 10 > 255 THEN 255 ELSE (c * 12) \div 10

\* VdpRenderer::apply_shadow_highlight_effect
apply_shadow_highlight_effect(rd) ==
    [rd EXCEPT !.frame_buffer.pixels =
        [c \in DOMAIN rd.frame_buffer.pixels |->
            LET p == rd.frame_buffer.pixels[c]
            IN Argb(p[1], Brighten(p[2]), Brighten(p[3]), Brighten(p[4]))],
               !.frame_buffer.dirty = TRUE]

\* VdpRenderer::apply_interlace_effect
apply_interlace_effect(rd) ==
    LET fb == rd.frame_buffer
    IN [rd EXCEPT !.frame_buffer.pixels =
        [c \in DOMAIN fb.pixels |->
            IF c[2] >= 1 /\ c[2] < fb.height - 1
            THEN LET color1 == fb.pixels[<<c[1], c[2] - 1>>]
                     color2 == fb.pixels[<<c[1], c[2] + 1>>]
                 IN Argb(color1[1], (color1[2] + color2[2]) \div 2,
                         (color1[3] + color2[3]) \div 2, (color1[4] + color2[4]) \div 2)
            ELSE fb.pixels[c]],
               !.frame_buffer.dirty = fb.dirty \/ fb.height > 2]

\* VdpRenderer::apply_post_processing
apply_post_processing(rd) ==
    LET rd1 == IF rd.video_mode.shadow_highlight THEN apply_shadow_highlight_effect(rd) ELSE rd
    IN IF rd1.video_mode.interlace THEN apply_interlace_effect(rd1) ELSE rd1

\* VdpRenderer::render_internal up to the plane manager: the frame buffer
\* takes the size of the mode and is cleared to the background colour, or
\* to transparent black when the background is hidden
render_background(rd, r, cr) ==
    LET sized == IF rd.frame_buffer.width # rd.video_mode.visible_width
                    \/ rd.frame_buffer.height # rd.video_mode.visible_height
                 THEN FrameBuffer_resize(rd.frame_buffer, rd.video_mode.visible_width,
                                         rd.video_mode.visible_height)
                 ELSE rd.frame_buffer
        bg_color == get_color_from_cram(cr, background_color_index(r))
    IN [rd EXCEPT !.frame_buffer =
          IF rd.show_background THEN FrameBuffer_clear(sized, bg_color)
          ELSE FrameBuffer_clear(sized, Argb(0, 0, 0, 0))]


(***************************************************************************)
(* Vdp::render_frame, step by step.  vdp.renderer is the VdpRenderer;      *)
(* vdp.render_call is the position inside render_frame: its stage, the     *)
(* turn of the loop over plane_order, the temporary buffer between two     *)
(* turns and the plane manager of the frame.  hist.args lists the passes   *)
(* applied to the frame being rendered, the background fill first.         *)
(***************************************************************************)
\* Frames rendered in a run.
MaxRenders == 2

RenderIdle == [stage |-> "idle", turn |-> 0, temp_buffer |-> None, plane_manager |-> None]

\* Vdp::new with its renderer
InitRender ==
    /\ \E is_pal \in BOOLEAN :
          LET v == Vdp_new(is_pal)
          IN /\ regs = v.regs
             /\ dma = v.dma
             /\ interrupts = v.interrupts
             /\ vram = v.vram
             /\ cram = v.cram
             /\ vsram = v.vsram
             /\ vdp = [ video_mode |-> v.vdp.video_mode,
                        sprite_table |-> v.vdp.sprite_table,
                        is_pal |-> v.vdp.is_pal,
                        frame_counter |-> v.vdp.frame_counter,
                        cycles_elapsed |-> v.vdp.cycles_elapsed,
                        display_enabled |-> v.vdp.display_enabled,
                        vblank_active |-> v.vdp.vblank_active,
                        hblank_active |-> v.vdp.hblank_active,
                        bus_ref |-> v.vdp.bus_ref,
                        renderer |-> VdpRenderer_new(Mode_new_default),
                        render_call |-> RenderIdle ]
    /\ op = "new"
    /\ ret = None
    /\ hist = [dma_ticks |-> -1, aborted |-> FALSE, raised |-> {},
               reset_from |-> None, args |-> << >>]

\* the stage after a stage of render_internal
NextStage(stage) ==
    CASE stage = "low_tiles" -> "low_sprites"
      [] stage = "low_sprites" -> "high_tiles"
      [] stage = "high_tiles" -> "high_sprites"
      [] stage = "high_sprites" -> "post"

\* the name of a pass in hist.args
Pass(stage, layer) ==
    << IF stage \in {"low_tiles", "low_sprites"} THEN "low" ELSE "high", layer >>

\* Vdp::render_frame up to the first layer pass: Vdp::update_video_mode,
\* then VdpRenderer::render_frame, which returns at once when rendering is
\* off or the mode of the renderer has the display off, and else updates
\* its mode and starts render_internal (size, background, plane manager)
RenderFrameBegin ==
    /\ vdp.render_call.stage = "idle"
    /\ vdp.renderer.frames_rendered < MaxRenders
    /\ LET video_mode == VdpVideoMode_from_registers(regs, vdp.is_pal)
           rd0 == IF vdp.renderer.video_mode.visible_width # video_mode.visible_width
                     \/ vdp.renderer.video_mode.visible_height # video_mode.visible_height
                  THEN VdpRenderer_resize(vdp.renderer, video_mode.visible_width,
                                          video_mode.visible_height)
                  ELSE vdp.renderer
       IN IF ~rd0.render_enabled \/ ~rd0.video_mode.display_enabled
          THEN /\ vdp' = [vdp EXCEPT !.video_mode = video_mode, !.renderer = rd0]
               /\ op' = "render_frame"
               /\ hist' = [hist EXCEPT !.args = << >>]
          ELSE LET rd1 == VdpRenderer_update_video_mode(rd0, regs)
                   rd2 == render_background(rd1, regs, cram)
                   pm == PlaneManager_update(PlaneManager_new(regs, rd1.video_mode),
                                             regs, rd1.video_mode)
               IN /\ vdp' = [vdp EXCEPT !.video_mode = video_mode,
                                        !.renderer = rd2,
                                        !.render_call = [stage |-> "low_tiles", turn |-> 1,
                                                         temp_buffer |-> None,
                                                         plane_manager |-> Some(pm)]]
                  /\ op' = "render_internal"
                  /\ hist' = [hist EXCEPT !.args = << <<"fill", "background">> >>]
    /\ ret' = None
    /\ UNCHANGED <<regs, dma, interrupts, vram, cram, vsram>>

\* render_low_priority_tiles / render_high_priority_tiles : one turn of the
\* loop over plane_order; the last turn is followed by the merge
RenderPlaneTurn ==
    /\ vdp.render_call.stage \in {"low_tiles", "high_tiles"}
    /\ vdp.renderer.show_planes \/ vdp.renderer.show_window
    /\ LET call == vdp.render_call
           rd == vdp.renderer
           pm == call.plane_manager[1]
           plane_type == pm.plane_order[call.turn]
           temp0 == IF call.turn = 1
                    THEN FrameBuffer_new(rd.frame_buffer.width, rd.frame_buffer.height)
                    ELSE call.temp_buffer[1]
           temp1 == plane_pass(rd, pm, plane_type, temp0, vram, cram, vsram, regs,
                               call.stage = "high_tiles")
       IN /\ vdp' = IF call.turn = Len(pm.plane_order)
                    THEN [vdp EXCEPT !.renderer = merge_framebuffers(rd, temp1),
                                     !.render_call = [call EXCEPT
                                          !.stage = NextStage(call.stage),
                                          !.turn = 1,
                                          !.temp_buffer = None]]
                    ELSE [vdp EXCEPT !.render_call = [call EXCEPT
                                          !.turn = call.turn + 1,
                                          !.temp_buffer = Some(temp1)]]
          /\ hist' = [hist EXCEPT !.args =
                         IF plane_shown(rd, plane_type)
                         THEN Append(@, Pass(call.stage, plane_type)) ELSE @]
    /\ op' = "plane_pass"
    /\ ret' = None
    /\ UNCHANGED <<regs, dma, interrupts, vram, cram, vsram>>

\* render_internal with planes and window both hidden: no tile pass
RenderSkipTiles ==
    /\ vdp.render_call.stage \in {"low_tiles", "high_tiles"}
    /\ ~(vdp.renderer.show_planes \/ vdp.renderer.show_window)
    /\ vdp' = [vdp EXCEPT !.render_call.stage = NextStage(@)]
    /\ op' = "skip_tiles"
    /\ ret' = None
    /\ UNCHANGED <<regs, dma, interrupts, vram, cram, vsram, hist>>

\* render_low_priority_sprites / render_high_priority_sprites, when the
\* sprites are shown
RenderSpritesPass ==
    /\ vdp.render_call.stage \in {"low_sprites", "high_sprites"}
    /\ LET call == vdp.render_call
           rd == vdp.renderer
           drawn == IF call.stage = "low_sprites"
                    THEN render_low_priority_sprites(rd, vdp.sprite_table, vram, cram)
                    ELSE render_high_priority_sprites(rd, vdp.sprite_table, vram, cram)
       IN /\ vdp' = [vdp EXCEPT !.renderer = IF rd.show_sprites THEN drawn ELSE rd,
                                !.render_call.stage = NextStage(call.stage)]
          /\ hist' = [hist EXCEPT !.args =
                         IF rd.show_sprites
                         THEN Append(@, Pass(call.stage, "sprites")) ELSE @]
    /\ op' = "sprites_pass"
    /\ ret' = None
    /\ UNCHANGED <<regs, dma, interrupts, vram, cram, vsram>>

\* the end of VdpRenderer::render_frame: post-processing and statistics
\* (last_frame_time is kept in cycles of the 7.67 MHz clock)
RenderFrameEnd ==
    /\ vdp.render_call.stage = "post"
    /\ vdp' = [vdp EXCEPT
                 !.renderer = [apply_post_processing(vdp.renderer) EXCEPT
                                  !.last_frame_time = vdp.cycles_elapsed,
                                  !.frames_rendered = @ + 1],
                 !.render_call = RenderIdle]
    /\ op' = "render_frame"
    /\ ret' = None
    /\ UNCHANGED <<regs, dma, interrupts, vram, cram, vsram, hist>>

(***************************************************************************)
(* A scene of planes rendered: the host sets registers, colours, one tile  *)
(* and one name-table entry of plane A and the render flags before the     *)
(* first frame, then frames are rendered.                                  *)
(***************************************************************************)
\* Register writes: display on (R1 = 0x40), background colour index 1,
\* shadow/highlight on (R12 = 0x08).
SceneRegWrites == { <<1, 64>>, <<7, 1>>, <<12, 8>> }

\* CRAM writes: colour 1 (0x00E) and colour 2 (0x0E0).
SceneColours == { <<1, 14>>, <<2, 224>> }

\* The 32 bytes of a tile whose 64 pixels all have colour index 2.
SceneTile == [k \in 1..32 |-> 34]

\* The flag sets given to set_render_flags: planes and window hidden, or
\* everything shown.
SceneFlags ==
    { [show_background |-> TRUE, show_planes |-> p, show_window |-> p,
       show_sprites |-> TRUE, debug_overlay |-> FALSE] : p \in BOOLEAN }

\* The scene is set up before anything is drawn.
SceneOpen ==
    /\ vdp.render_call.stage = "idle"
    /\ vdp.renderer.frames_rendered = 0
    /\ hist.args = << >>

\* VdpRegisters::write_reg
SceneWriteReg ==
    \E w \in SceneRegWrites :
       /\ SceneOpen
       /\ regs' = write_reg(regs, w[1], w[2])
       /\ op' = "write_reg"
       /\ ret' = None
       /\ UNCHANGED <<dma, interrupts, vram, cram, vsram, vdp, hist>>

\* Cram::write
SceneWriteColour ==
    \E w \in SceneColours :
       /\ SceneOpen
       /\ cram' = Cram_write(cram, w[1], w[2])
       /\ op' = "cram_write"
       /\ ret' = None
       /\ UNCHANGED <<regs, dma, interrupts, vram, vsram, vdp, hist>>

\* Vram::write_tile_4bpp of tile 1
SceneWriteTile ==
    /\ SceneOpen
    /\ vram' = write_tile_4bpp(vram, 1, SceneTile)
    /\ op' = "write_tile_4bpp"
    /\ ret' = None
    /\ UNCHANGED <<regs, dma, interrupts, cram, vsram, vdp, hist>>

\* Vram::write16 of the name-table entry of tile coordinate (0,0) of plane
\* A: tile 1, palette 0, low priority
SceneWriteEntry ==
    /\ SceneOpen
    /\ vram' = Vram_write16(vram, plane_a_address(regs), 1)
    /\ op' = "write16"
    /\ ret' = None
    /\ UNCHANGED <<regs, dma, interrupts, cram, vsram, vdp, hist>>

\* VdpRenderer::set_render_flags
SceneSetFlags ==
    \E flags \in SceneFlags :
       /\ SceneOpen
       /\ vdp' = [vdp EXCEPT !.renderer = set_render_flags(@, flags)]
       /\ op' = "set_render_flags"
       /\ ret' = None
       /\ UNCHANGED <<regs, dma, interrupts, vram, cram, vsram, hist>>

NextRender ==
    \/ SceneWriteReg
    \/ SceneWriteColour
    \/ SceneWriteTile
    \/ SceneWriteEntry
    \/ SceneSetFlags
    \/ RenderFrameBegin
    \/ RenderPlaneTurn
    \/ RenderSkipTiles
    \/ RenderSpritesPass
    \/ RenderFrameEnd

SpecRender == InitRender /\ [][NextRender]_vars


\* The order of the passes of a frame.
LayerOrder ==
    << <<"fill", "background">>,
       <<"low", PlaneB>>, <<"low", PlaneA>>, <<"low", PlaneWindow>>, <<"low", "sprites">>,
       <<"high", PlaneB>>, <<"high", PlaneA>>, <<"high", PlaneWindow>>, <<"high", "sprites">> >>

LayerPosition(pass) == CHOOSE k \in 1..Len(LayerOrder) : LayerOrder[k] = pass

\* C30: within one render_frame the passes applied so far are passes of
\* the order background fill, low B, low A, low Window, low sprites,
\* high B, high A, high Window, high sprites, each after the ones that
\* precede it in that order, and the background fill is the first.
LayerPassesInOrder ==
    LET passes == hist.args
    IN /\ \A i \in 1..Len(passes) : \E k \in 1..Len(LayerOrder) : LayerOrder[k] = passes[i]
       /\ \A i, j \in 1..Len(passes) :
             i < j => LayerPosition(passes[i]) < LayerPosition(passes[j])
       /\ vdp.render_call.stage # "idle" => passes # << >>
       /\ passes # << >> => passes[1] = <<"fill", "background">>

\* C30 witness: a frame was rendered with every layer shown, and all nine
\* passes were applied.
LayerAllPassesApplied ==
    /\ op = "render_frame"
    /\ vdp.renderer.frames_rendered > 0
    /\ hist.args = LayerOrder


\* The colour of the background register.
BackgroundColour == get_color_from_cram(cram, background_color_index(regs))

\* A frame was rendered with everything shown and the display on, plane A
\* based at 0xC000, its entry at tile coordinate (0,0) naming tile 1 whose
\* pixels all have colour index 2, a colour other than the background's,
\* nothing else in VRAM, no sprite and no shadow/highlight.
SceneTileOnly ==
    /\ op = "render_frame"
    /\ hist.args = LayerOrder
    /\ plane_a_address(regs) = 49152
    /\ Vram_read16(vram, 49152) = 1
    /\ \A k \in 0..31 : Vram_read8(vram, 32 + k) = 34
    /\ vdp.renderer.video_mode.display_enabled
    /\ ~vdp.renderer.video_mode.shadow_highlight
    /\ vdp.renderer.show_background
    /\ vdp.sprite_table.sprites = << >>
    /\ get_color_from_cram(cram, 2) # BackgroundColour

\* C29: after render_frame with plane A at 0xC000, one non-transparent tile
\* at tile coordinate (0,0) and nothing else drawn, every pixel outside the
\* top-left 8x8 block equals the background colour and the pixels of the
\* block differ from it.
TileOnBackground ==
    SceneTileOnly =>
       \A c \in DOMAIN vdp.renderer.frame_buffer.pixels :
          IF c[1] < 8 /\ c[2] < 8
          THEN vdp.renderer.frame_buffer.pixels[c] # BackgroundColour
          ELSE vdp.renderer.frame_buffer.pixels[c] = BackgroundColour

\* C29, what the code does: in that scene, with a background colour that
\* is not black, the frame is opaque black both in the block of the tile
\* and outside it.
TileFrameBlack ==
    /\ SceneTileOnly
    /\ BackgroundColour # Argb(255, 0, 0, 0)
    /\ get_color_from_cram(cram, 2) # Argb(255, 0, 0, 0)
    /\ \A c \in DOMAIN vdp.renderer.frame_buffer.pixels :
          vdp.renderer.frame_buffer.pixels[c] = Argb(255, 0, 0, 0)


(***************************************************************************)
(* A scene of sprites rendered: the host loads colour 2 and tiles 1 and 2, *)
(* then adds sprites side by side on line 50, then frames are rendered.    *)
(***************************************************************************)
\* Sprites added to the table.
MaxFrameSprites == 21

\* The sprite added k-th: high priority, tile 1, palette 0, 8 pixels wide
\* at x = 8 * (k - 1), from line 50; the first 20 are 8 lines high, the
\* later ones 16 lines.
FrameSprite(k) ==
    with_params(8 * (k - 1), 50,
                IF k <= MAX_SPRITES_PER_LINE THEN <<1, 1>> ELSE <<1, 2>>,
                1, 0, TRUE, FALSE, FALSE, FALSE)

\* Cram::write of colour 2 (0x0E0)
SpriteSceneColour ==
    /\ SceneOpen
    /\ vdp.sprite_table.sprites = << >>
    /\ cram' = Cram_write(cram, 2, 224)
    /\ op' = "cram_write"
    /\ ret' = None
    /\ UNCHANGED <<regs, dma, interrupts, vram, vsram, vdp, hist>>

\* Vram::write_tile_4bpp of tile 1 or 2
SpriteSceneTile ==
    \E tile_index \in {1, 2} :
       /\ SceneOpen
       /\ vdp.sprite_table.sprites = << >>
       /\ vram' = write_tile_4bpp(vram, tile_index, SceneTile)
       /\ op' = "write_tile_4bpp"
       /\ ret' = None
       /\ UNCHANGED <<regs, dma, interrupts, cram, vsram, vdp, hist>>

\* SpriteTable::add_sprite of the next sprite, once colour and tiles are
\* loaded
SpriteSceneAdd ==
    /\ SceneOpen
    /\ Cram_read(cram, 2) # 0
    /\ Vram_read8(vram, 32) # 0 /\ Vram_read8(vram, 64) # 0
    /\ Len(vdp.sprite_table.sprites) < MaxFrameSprites
    /\ LET sprite == FrameSprite(Len(vdp.sprite_table.sprites) + 1)
       IN /\ vdp' = [vdp EXCEPT !.sprite_table = add_sprite(@, sprite)]
          /\ ret' = <<add_sprite_result(vdp.sprite_table, sprite)>>
    /\ op' = "add_sprite"
    /\ UNCHANGED <<regs, dma, interrupts, vram, cram, vsram, hist>>

NextSprites ==
    \/ SpriteSceneColour
    \/ SpriteSceneTile
    \/ SpriteSceneAdd
    \/ RenderFrameBegin
    \/ RenderPlaneTurn
    \/ RenderSpritesPass
    \/ RenderFrameEnd

SpecSprites == InitRender /\ [][NextSprites]_vars

\* The sprites of the table that set the pixel at c when rendered.
SpritesDrawingAt(c) ==
    {k \in 1..Len(vdp.sprite_table.sprites) :
        Sprite_render_pixel(vdp.sprite_table.sprites[k],
                            vdp.renderer.frame_buffer.width,
                            vdp.renderer.frame_buffer.height,
                            c[1], c[2], vram, cram, None) # None}

\* The colour sprite k sets at c.
SpriteColourAt(k, c) ==
    Sprite_render_pixel(vdp.sprite_table.sprites[k],
                        vdp.renderer.frame_buffer.width,
                        vdp.renderer.frame_buffer.height,
                        c[1], c[2], vram, cram, None)[1]

\* Sprite k is among the first 20 sprites of the table on the line.
WithinLineLimit(k, line) ==
    Cardinality({j \in 1..(k - 1) : is_on_line(vdp.sprite_table.sprites[j], line)})
        < MAX_SPRITES_PER_LINE

\* C26: in a rendered frame at most 20 sprites contribute pixels to a
\* scanline: where only sprites that are the 21st or later of their line
\* would draw, the pixel does not have their colour, while a pixel whose
\* last sprite is within the first 20 of the line has that sprite's colour.
SpriteLineLimit ==
    (op = "render_frame" /\ hist.args = LayerOrder) =>
       \A c \in DOMAIN vdp.renderer.frame_buffer.pixels :
          LET ks == SpritesDrawingAt(c)
              last == CHOOSE k \in ks : \A j \in ks : j <= k
          IN ks # {} =>
                IF \A k \in ks : ~WithinLineLimit(k, c[2])
                THEN \A k \in ks :
                        SpriteColourAt(k, c) \notin {Argb(255, 0, 0, 0), BackgroundColour}
                        => vdp.renderer.frame_buffer.pixels[c] # SpriteColourAt(k, c)
                ELSE WithinLineLimit(last, c[2])
                        => vdp.renderer.frame_buffer.pixels[c] = SpriteColourAt(last, c)

\* C26, what the code does: 21 sprites cover line 50, and the frame holds
\* the colour of the 21st at (160, 50) as it does on line 60, which only
\* that sprite covers.
SpriteBeyondLimitDrawn ==
    /\ op = "render_frame"
    /\ hist.args = LayerOrder
    /\ Len(vdp.sprite_table.sprites) >= 21
    /\ Cardinality({j \in 1..20 : is_on_line(vdp.sprite_table.sprites[j], 50)}) = 20
    /\ SpritesDrawingAt(<<160, 50>>) = {21}
    /\ SpritesDrawingAt(<<160, 60>>) = {21}
    /\ vdp.renderer.frame_buffer.pixels[<<160, 50>>] = Argb(255, 0, 216, 0)
    /\ vdp.renderer.frame_buffer.pixels[<<160, 60>>] = Argb(255, 0, 216, 0)


(***************************************************************************)
(* Two contributions merged into a cleared frame in either order: the      *)
(* low-priority pixels of plane A and the high-priority sprites, each      *)
(* drawn into a temporary buffer and merged with merge_framebuffers as     *)
(* render_low_priority_tiles and render_high_priority_sprites do.  The     *)
(* renderer has the mode it is constructed with.                           *)
(***************************************************************************)
\* The 32 bytes of a tile whose 64 pixels all have colour index 1.
MergeTile == [k \in 1..32 |-> 17]

\* Vram::write_tile_4bpp of tile 2, the tile of the sprite
MergeWriteTile ==
    /\ SceneOpen
    /\ vram' = write_tile_4bpp(vram, 2, MergeTile)
    /\ op' = "write_tile_4bpp"
    /\ ret' = None
    /\ UNCHANGED <<regs, dma, interrupts, cram, vsram, vdp, hist>>

\* SpriteTable::add_sprite of one high-priority sprite of tile 2 at the
\* top of the frame, at x = 0 or x = 4
MergeAddSprite ==
    \E x \in {0, 4} :
       /\ SceneOpen
       /\ vdp.sprite_table.sprites = << >>
       /\ LET sprite == with_params(x, 0, <<1, 1>>, 2, 0, TRUE, FALSE, FALSE, FALSE)
          IN /\ vdp' = [vdp EXCEPT !.sprite_table = add_sprite(@, sprite)]
             /\ ret' = <<add_sprite_result(vdp.sprite_table, sprite)>>
       /\ op' = "add_sprite"
       /\ UNCHANGED <<regs, dma, interrupts, vram, cram, vsram, hist>>

\* the background fill of render_internal
MergeClear ==
    /\ hist.args = << >>
    /\ vdp' = [vdp EXCEPT !.renderer = render_background(@, regs, cram)]
    /\ hist' = [hist EXCEPT !.args = << <<"fill", "background">> >>]
    /\ op' = "clear"
    /\ ret' = None
    /\ UNCHANGED <<regs, dma, interrupts, vram, cram, vsram>>

\* The temporary buffer holding the low-priority pixels of plane A.
PlaneAContribution ==
    LET rd == vdp.renderer
    IN Plane_render(Plane_new(PlaneA, regs, rd.video_mode),
                    FrameBuffer_new(rd.frame_buffer.width, rd.frame_buffer.height),
                    vram, cram, vsram, regs, rd.video_mode, FALSE)

\* merge_framebuffers of the plane-A contribution
MergePlaneA ==
    /\ hist.args # << >>
    /\ \A i \in 1..Len(hist.args) : hist.args[i] # <<"low", PlaneA>>
    /\ vdp' = [vdp EXCEPT !.renderer = merge_framebuffers(@, PlaneAContribution)]
    /\ hist' = [hist EXCEPT !.args = Append(@, <<"low", PlaneA>>)]
    /\ op' = "merge_framebuffers"
    /\ ret' = None
    /\ UNCHANGED <<regs, dma, interrupts, vram, cram, vsram>>

\* render_high_priority_sprites : the sprite contribution and its merge
MergeSprites ==
    /\ hist.args # << >>
    /\ \A i \in 1..Len(hist.args) : hist.args[i] # <<"high", "sprites">>
    /\ vdp' = [vdp EXCEPT !.renderer =
                  render_high_priority_sprites(@, vdp.sprite_table, vram, cram)]
    /\ hist' = [hist EXCEPT !.args = Append(@, <<"high", "sprites">>)]
    /\ op' = "render_high_priority_sprites"
    /\ ret' = None
    /\ UNCHANGED <<regs, dma, interrupts, vram, cram, vsram>>

NextMerge ==
    \/ SceneWriteColour
    \/ SceneWriteTile
    \/ SceneWriteEntry
    \/ MergeWriteTile
    \/ MergeAddSprite
    \/ MergeClear
    \/ MergePlaneA
    \/ MergeSprites

SpecMerge == InitRender /\ [][NextMerge]_vars

\* Plane A has a low-priority pixel at c: rendered over a transparent
\* pixel, it sets it.
PlaneADrawsAt(c) ==
    LET rd == vdp.renderer
    IN render_pixel(Plane_new(PlaneA, regs, rd.video_mode), Argb(0, 0, 0, 0), c[1], c[2],
                    vram, cram, vsram, regs, rd.video_mode, FALSE) # Argb(0, 0, 0, 0)

\* C28: once a low-priority plane-A contribution and a high-priority
\* sprite contribution are both merged, in either order, every pixel where
\* both have a pixel holds the sprite's colour.
MergeOrderIndependent ==
    (/\ \E i \in 1..Len(hist.args) : hist.args[i] = <<"low", PlaneA>>
     /\ \E i \in 1..Len(hist.args) : hist.args[i] = <<"high", "sprites">>)
    => \A c \in DOMAIN vdp.renderer.frame_buffer.pixels :
          (PlaneADrawsAt(c) /\ SpritesDrawingAt(c) # {})
          => vdp.renderer.frame_buffer.pixels[c] = SpriteColourAt(1, c)

\* C28, what the code does: the sprite contribution was merged first and
\* the plane contribution second, both have a pixel at (7, 7), of
\* different colours, and the frame holds the colour of the plane.
MergeReversedPlaneWins ==
    /\ hist.args = << <<"fill", "background">>, <<"high", "sprites">>, <<"low", PlaneA>> >>
    /\ PlaneADrawsAt(<<7, 7>>)
    /\ SpritesDrawingAt(<<7, 7>>) = {1}
    /\ SpriteColourAt(1, <<7, 7>>) = Argb(255, 216, 0, 0)
    /\ vdp.renderer.frame_buffer.pixels[<<7, 7>>] = Argb(255, 0, 216, 0)

\* C28, the order of a frame: the plane contribution was merged first and
\* the sprite contribution second, and the frame holds the sprite's colour.
MergeSpriteLastWins ==
    /\ hist.args = << <<"fill", "background">>, <<"low", PlaneA>>, <<"high", "sprites">> >>
    /\ PlaneADrawsAt(<<7, 7>>)
    /\ SpritesDrawingAt(<<7, 7>>) = {1}
    /\ SpriteColourAt(1, <<7, 7>>) = Argb(255, 216, 0, 0)
    /\ vdp.renderer.frame_buffer.pixels[<<7, 7>>] = Argb(255, 216, 0, 0)


(***************************************************************************)
(* Claims of the last group, over the specifications above.                *)
(***************************************************************************)
\* A tick of the engine that transfers a word of a fill.
FillTransferTick ==
    /\ op' = "tick"
    /\ dma.mode = VramFill
    /\ dma.active
    /\ dma.words_remaining > 0
    /\ dma.cycles_until_transfer = 0

\* C31: every tick of a VramFill transfer writes the fill word, the fill
\* byte in both of its bytes, to VRAM at the current destination address,
\* then advances the destination by 2, and leaves CRAM and VSRAM alone.
FillTickWrites ==
    [][FillTransferTick =>
         /\ dma.fill_data = 257 * (dma.fill_data % 256)
         /\ vram' = Vram_write16(vram, dma.dest_addr, dma.fill_data)
         /\ Vram_read16(vram', dma.dest_addr) = dma.fill_data
         /\ dma'.dest_addr = dma.dest_addr + 2
         /\ cram' = cram
         /\ vsram' = vsram]_vars

\* C31, what the code does: a fill of two words set up at 0x3FFE has
\* ended; the first word is in VRAM at 0x3FFE and the second tick, with
\* the destination at 0x4000, wrote nothing.
FillTickSkipsWord ==
    /\ op = "tick"
    /\ ret = Some(TRUE)
    /\ dma.length = 2
    /\ dma.fill_data = 514
    /\ dma.dest_addr = 16386
    /\ hist.dma_ticks = 2
    /\ Vram_read16(vram, 16382) = 514
    /\ Vram_read16(vram, 16384) = 0


(***************************************************************************)
(* A memory-to-VDP transfer into memories that hold data: the host stores  *)
(* words in VRAM, CRAM and VSRAM, then sets the engine up with a           *)
(* destination whose top bits select one of the three, and ticks it.       *)
(* hist.args holds the destination given to the last setup.                *)
(***************************************************************************)
\* The words the host stores: VRAM at 0 and 2, CRAM entry 0, VSRAM word 0.
DestStores == { <<VRAM, 0, 4660>>, <<VRAM, 2, 4660>>, <<CRAM, 0, 3822>>, <<VSRAM, 0, 291>> }

\* Destinations given to the setup: VRAM 0, CRAM 0 (0x4000), VSRAM 0
\* (0x8000) and the last word of the VRAM window (0x3FFE).
DestAddrs == {0, 16384, 32768, 16382}

\* Vram::write16 / Cram::write / Vsram::write16, before the first setup
DestStore ==
    \E s \in DestStores :
       /\ hist.args = << >>
       /\ vram' = IF s[1] = VRAM THEN Vram_write16(vram, s[2], s[3]) ELSE vram
       /\ cram' = IF s[1] = CRAM THEN Cram_write(cram, s[2], s[3]) ELSE cram
       /\ vsram' = IF s[1] = VSRAM THEN Vsram_write16(vsram, s[2], s[3]) ELSE vsram
       /\ op' = "store"
       /\ ret' = None
       /\ UNCHANGED <<dma, hist>>
       /\ OnlyDma

\* VdpDma::setup_from_registers for a memory-to-VDP transfer
DestSetup ==
    \E len \in 0..MaxDmaLen, vram_addr \in DestAddrs :
       LET r == DmaRegFile(0, len, 2)
           ok == setup_from_registers_result(dma, r, vram_addr)
       IN /\ dma' = setup_from_registers(dma, r, vram_addr)
          /\ op' = "setup_from_registers"
          /\ ret' = Some(ok)
          /\ hist' = [hist EXCEPT !.dma_ticks = IF ok THEN 0 ELSE -1,
                                  !.aborted = hist.aborted /\ ~ok,
                                  !.args = <<vram_addr>>]
          /\ UNCHANGED <<vram, cram, vsram>>
          /\ OnlyDma

NextDest ==
    \/ DestStore
    \/ DestSetup
    \/ DmaTick

SpecDest == Init /\ [][NextDest]_vars

\* A tick of the engine that transfers a word from memory.
MemoryTransferTick ==
    /\ op' = "tick"
    /\ dma.mode = MemoryToVdp
    /\ dma.active
    /\ dma.words_remaining > 0
    /\ dma.cycles_until_transfer = 0

\* C32: a memory-to-VDP transfer writes each word to the memory selected by
\* the top two bits of the destination it was set up with: VRAM, CRAM
\* (leaving VRAM and VSRAM unchanged) or VSRAM (leaving VRAM and CRAM
\* unchanged); source and destination advance by 2 per word.
DmaWritesSelectedMemory ==
    [][MemoryTransferTick =>
         LET kind == (hist.args[1] \div 16384) % 4
             data == Bus_read16(255, dma.source_addr)
             word == (dma.dest_addr % 16384) \div 2
         IN /\ kind = 1 => /\ vram' = vram
                           /\ vsram' = vsram
                           /\ cram' = Cram_write(cram, word, data)
            /\ kind = 2 => /\ vram' = vram
                           /\ cram' = cram
                           /\ vsram' = Vsram_write16(vsram, dma.dest_addr % 16384, data)
            /\ kind \in {0, 3} => vram' = Vram_write16(vram, dma.dest_addr, data)
            /\ dma'.source_addr = dma.source_addr + 2
            /\ dma'.dest_addr = dma.dest_addr + 2]_vars

\* C32, what the code does: a one-word transfer set up with destination
\* 0x4000 (CRAM entry 0) has run; CRAM entry 0 still holds the stored
\* colour, and the VRAM word at 0 was overwritten while the one at 2 was
\* not.
DmaCramGoesToVram ==
    /\ op = "tick"
    /\ hist.args = <<16384>>
    /\ hist.dma_ticks = 1
    /\ dma.length = 1
    /\ dma.dest_addr = 2
    /\ Cram_read(cram, 0) = 3822
    /\ Vram_read16(vram, 0) = 0
    /\ Vram_read16(vram, 2) = 4660


(***************************************************************************)
(* The sprite flags of the interrupt controller across the end of a frame. *)
(* The host may enable the VBlank interrupt before the first cycle; it     *)
(* calls tick a line at a time up to the last line of the frame,           *)
(* where it signals, reads, polls and resets from PollLead cycles before   *)
(* the frame ends, between single ticks, until PollTail cycles into the    *)
(* next frame.                                                             *)
(***************************************************************************)
\* The cycles of a frame.
FrameCycles(i) == cycles_per_line(i) * total_lines(i)

StickyAwake == interrupts.cycle_counter >= FrameCycles(interrupts) - PollLead

\* The number of tick calls the host makes in a row from where it is.
StickyBurst ==
    LET line == cycles_per_line(interrupts)
        left == FrameCycles(interrupts) - PollLead - interrupts.cycle_counter
    IN IF left <= 0 THEN 1
       ELSE IF left >= line THEN line
       ELSE left

\* VdpInterruptController::update_from_registers, before the first cycle,
\* from a register file with the VBlank interrupt enabled (R1 = 0x20)
StickyUpdateFromRegisters ==
    /\ op = "new"
    /\ regs' = FrameRegFile(0, 32, 0, 0)
    /\ interrupts' = update_from_registers(interrupts, regs')
    /\ op' = "update_from_registers"
    /\ ret' = None
    /\ UNCHANGED <<dma, vram, cram, vsram, vdp, hist>>

\* VdpInterruptController::tick
StickyTick ==
    /\ interrupts.cycle_counter < FrameCycles(interrupts) + PollTail
    /\ interrupts' = TickTimes(interrupts, regs, StickyBurst)
    /\ op' = "tick"
    /\ ret' = None
    /\ OnlyIrq

\* VdpInterruptController::signal_sprite_overflow
StickySignalSpriteOverflow ==
    /\ StickyAwake
    /\ Len(interrupts.pending) < MaxPending
    /\ interrupts' = signal_sprite_overflow(interrupts, interrupts.v_counter)
    /\ op' = "signal_sprite_overflow"
    /\ ret' = None
    /\ OnlyIrq

\* VdpInterruptController::signal_sprite_collision
StickySignalSpriteCollision ==
    /\ StickyAwake
    /\ Len(interrupts.pending) < MaxPending
    /\ interrupts' = signal_sprite_collision(interrupts)
    /\ op' = "signal_sprite_collision"
    /\ ret' = None
    /\ OnlyIrq

\* VdpInterruptController::read_status
StickyReadStatus ==
    /\ StickyAwake
    /\ interrupts' = read_status(interrupts)
    /\ op' = "read_status"
    /\ ret' = Some(read_status_result(interrupts))
    /\ OnlyIrq

\* VdpInterruptController::pop_interrupt
StickyPopInterrupt ==
    /\ StickyAwake
    /\ interrupts' = pop_interrupt(interrupts)
    /\ op' = "pop_interrupt"
    /\ ret' = pop_interrupt_result(interrupts)
    /\ OnlyIrq

\* VdpInterruptController::reset
StickyReset ==
    /\ StickyAwake
    /\ interrupts' = Irq_reset(interrupts)
    /\ op' = "reset"
    /\ ret' = None
    /\ OnlyIrq

NextSticky ==
    \/ StickyUpdateFromRegisters
    \/ StickyTick
    \/ StickySignalSpriteOverflow
    \/ StickySignalSpriteCollision
    \/ StickyReadStatus
    \/ StickyPopInterrupt
    \/ StickyReset

SpecSticky == Init /\ [][NextSticky]_vars

\* C33: a sprite-overflow or sprite-collision status flag that is set stays
\* set through status reads and interrupt pops, and through every other
\* step except a reset and the tick that ends the frame.
SpriteFlagsSticky ==
    [][\A f \in {I_SPRITE_OVERFLOW, I_SPRITE_COLLISION} :
          (FlagContains(interrupts.status, f) /\ ~FlagContains(interrupts'.status, f))
          => \/ op' = "reset"
             \/ /\ op' = "tick"
                /\ interrupts.v_counter = total_lines(interrupts) - 1
                /\ interrupts'.v_counter = 0]_vars

\* C33 witness: both flags were raised, both events have been taken off the
\* queue, and a status read returned both flags and left them set.
SpriteFlagsStickyWitness ==
    /\ op = "read_status"
    /\ interrupts.pending = << >>
    /\ interrupts.sprite_collision_detected
    /\ interrupts.sprite_overflow_line # None
    /\ FlagContains(ret[1], I_SPRITE_OVERFLOW)
    /\ FlagContains(ret[1], I_SPRITE_COLLISION)
    /\ FlagContains(interrupts.status, I_SPRITE_OVERFLOW)
    /\ FlagContains(interrupts.status, I_SPRITE_COLLISION)

\* C33 witness of the clearing: the tick that ended the frame has cleared
\* the two flags.
SpriteFlagsClearedAtFrameEnd ==
    /\ op = "tick"
    /\ interrupts.cycle_counter = FrameCycles(interrupts)
    /\ interrupts.v_counter = 0
    /\ ~FlagContains(interrupts.status, I_SPRITE_OVERFLOW)
    /\ ~FlagContains(interrupts.status, I_SPRITE_COLLISION)
    /\ Len(interrupts.pending) = 2


(***************************************************************************)
(* The Vdp ticked through a frame.  The host may select the 40-cell mode   *)
(* (R12 = 0x81) and initializes before the first cycle, then calls tick a  *)
(* line at a time, and cycle by cycle from PollLead cycles before to       *)
(* PollTail cycles after the start of lines 224 and 240.                   *)
(***************************************************************************)
\* Vdp::tick called n times in a row (no transfer is under way: the bus
\* byte is never read)
RECURSIVE Vdp_tick_times(_, _)
Vdp_tick_times(v, n) ==
    IF n = 0 THEN v
    ELSE IF n = 1 THEN Vdp_tick(v, 0)
    ELSE LET half == Vdp_tick_times(v, n \div 2)
         IN IF half.vdp.cycles_elapsed = v.vdp.cycles_elapsed + (n \div 2)
            THEN Vdp_tick_times(half, n - (n \div 2))
            ELSE half

\* The lines at whose start the host looks cycle by cycle.
BlankLines == {224, 240}

BlankBurst ==
    LET line == cycles_per_line(interrupts)
        h == interrupts.h_counter
    IN IF interrupts.v_counter + 1 \in BlankLines
       THEN (IF h < line - PollLead THEN line - PollLead - h ELSE 1)
       ELSE IF interrupts.v_counter \in BlankLines /\ h < PollTail THEN 1
       ELSE line - h

\* VdpRegisters::write_reg(12, 0x81) on the Vdp's register file
BlankWriteReg ==
    /\ op = "new"
    /\ regs' = write_reg(regs, 12, 129)
    /\ op' = "write_reg"
    /\ ret' = None
    /\ OnlyRegs

\* Vdp::initialize
BlankInitialize ==
    /\ op \in {"new", "write_reg"}
    /\ Becomes(initialize(Self))
    /\ op' = "initialize"
    /\ ret' = None
    /\ UNCHANGED hist

\* Vdp::tick, for one frame and one line
BlankTick ==
    /\ op \in {"initialize", "tick"}
    /\ vdp.cycles_elapsed < FrameCycles(interrupts) + cycles_per_line(interrupts)
    /\ Becomes(Vdp_tick_times(Self, BlankBurst))
    /\ op' = "tick"
    /\ ret' = None
    /\ UNCHANGED hist

NextBlank ==
    \/ BlankWriteReg
    \/ BlankInitialize
    \/ BlankTick

SpecBlank == Init /\ [][NextBlank]_vars

\* C34: over tick calls the frame counter increases by exactly 1, and the
\* sprite table is reloaded, when the vertical counter passes from below the
\* visible height to it, and not otherwise; and after every tick
\* vblank_active tells whether the vertical counter is at or beyond the
\* visible height.
FrameBookkeepingOnce ==
    [][op' = "tick" =>
         LET height == vdp.video_mode.visible_height
             enters == /\ interrupts.v_counter < height
                       /\ interrupts'.v_counter >= height
         IN /\ vdp'.frame_counter = vdp.frame_counter + (IF enters THEN 1 ELSE 0)
            /\ enters =>
                 LET t == load_from_vram(vdp.sprite_table, vram)
                 IN vdp'.sprite_table.sprites = t.sprites
            /\ ~enters => vdp'.sprite_table = vdp.sprite_table
            /\ vdp'.vblank_active = (interrupts'.v_counter >= height)]_vars

\* C34 witness: a PAL Vdp in the 32-cell mode at the start of line 224, the
\* first line below its 224 visible lines: vblank_active is clear and the
\* frame counter has not moved.
PalBlankStartsLate ==
    /\ op = "tick"
    /\ vdp.is_pal
    /\ vdp.video_mode.visible_height = 224
    /\ interrupts.v_counter = 224
    /\ interrupts.h_counter = 0
    /\ ~vdp.vblank_active
    /\ vdp.frame_counter = 0

\* The same with the line the interrupt controller starts the vertical
\* blanking at (224 for NTSC, 240 for PAL) in place of the visible height.
FrameBookkeepingAtBlankStart ==
    [][op' = "tick" =>
         LET enters == /\ ~in_vblank(interrupts)
                       /\ in_vblank(interrupts')
         IN /\ vdp'.frame_counter = vdp.frame_counter + (IF enters THEN 1 ELSE 0)
            /\ enters =>
                 LET t == load_from_vram(vdp.sprite_table, vram)
                 IN vdp'.sprite_table.sprites = t.sprites
            /\ ~enters => vdp'.sprite_table = vdp.sprite_table
            /\ vdp'.vblank_active = in_vblank(interrupts')]_vars

\* The frame counter has counted the frame: one line into the next frame it
\* is 1.
FrameCountedOnce ==
    /\ op = "tick"
    /\ vdp.cycles_elapsed = FrameCycles(interrupts) + cycles_per_line(interrupts)
    /\ vdp.frame_counter = 1
    /\ ~vdp.vblank_active


\* A Vdp newly created for the video standard and initialized.
FreshVdp(is_pal) == initialize(Vdp_new(is_pal))

\* C35: the state after Vdp::reset equals the state of a Vdp newly created
\* for the same video standard and initialized (the bus reference, which
\* reset keeps, apart): registers with their cached base addresses,
\* auto-increment step and status flags, memories, DMA engine, interrupt
\* controller, video mode, sprite table and counters.
ResetRestoresDefaults ==
    [][op' = "reset" =>
         LET fresh == FreshVdp(vdp.is_pal)
         IN /\ regs' = fresh.regs
            /\ dma' = fresh.dma
            /\ interrupts' = fresh.interrupts
            /\ vram' = fresh.vram
            /\ cram' = fresh.cram
            /\ vsram' = fresh.vsram
            /\ [vdp' EXCEPT !.bus_ref = FALSE] = fresh.vdp]_vars

\* C35 witness: after a reset the cached base addresses are all 0, where a
\* new register file has 0xC000, 0xE000, 0xB000, 0xF800 and 0xFC00; the
\* auto-increment step and the status flags are those of a new one.
ResetZeroesPlaneAddresses ==
    /\ op = "reset"
    /\ regs.plane_a_addr = 0 /\ VdpRegisters_new.plane_a_addr = 49152
    /\ regs.plane_b_addr = 0 /\ VdpRegisters_new.plane_b_addr = 57344
    /\ regs.window_addr = 0 /\ VdpRegisters_new.window_addr = 45056
    /\ regs.sprite_table_addr = 0 /\ VdpRegisters_new.sprite_table_addr = 63488
    /\ regs.hscroll_addr = 0 /\ VdpRegisters_new.hscroll_addr = 64512
    /\ regs.auto_increment = VdpRegisters_new.auto_increment
    /\ regs.status = VdpRegisters_new.status

\* The state after Vdp::reset but for the cached base addresses.
ResetRestoresAllButAddresses ==
    [][op' = "reset" =>
         LET fresh == FreshVdp(vdp.is_pal)
         IN /\ regs' = update_plane_addresses(fresh.regs)
            /\ dma' = fresh.dma
            /\ interrupts' = fresh.interrupts
            /\ vram' = fresh.vram
            /\ cram' = fresh.cram
            /\ vsram' = fresh.vsram
            /\ [vdp' EXCEPT !.bus_ref = FALSE] = fresh.vdp]_vars


\* The FIFO flags of the register file's status tell the occupancy.
FifoFlagsMatch(r) ==
    /\ FlagContains(r.status, R_FIFO_EMPTY) <=> (r.fifo = << >>)
    /\ FlagContains(r.status, R_FIFO_FULL) <=> (Len(r.fifo) = 4)

\* C36: in every reachable state of the register file, the initial state
\* and the state after reset included, FIFO_EMPTY is set exactly when the
\* FIFO holds no entry and FIFO_FULL exactly when it holds 4 entries.
FifoFlagsMirror == FifoFlagsMatch(regs)

\* C36 witness: after a reset the FIFO is empty and the status is without
\* FIFO_EMPTY, as it is in a new register file.
FifoEmptyUnflagged ==
    /\ op = "reset"
    /\ regs.fifo = << >>
    /\ ~FlagContains(regs.status, R_FIFO_EMPTY)
    /\ regs.status = VdpRegisters_new.status
    /\ VdpRegisters_new.fifo = << >>

\* The flags tell the occupancy after every pop and every data-port write
\* that is not taken by the DMA path, and from then on until a reset.
FifoFlagsMirrorOnceUpdated ==
    [][/\ (op' = "pop_fifo" \/ (op' = "write_data_port" /\ ~regs.dma_active))
            => FifoFlagsMatch(regs')
       /\ (FifoFlagsMatch(regs) /\ op' # "reset") => FifoFlagsMatch(regs')]_vars


(***************************************************************************)
(* Frames rendered while the host switches the display on and off between  *)
(* them (register 1, bit 6) and the clock advances.                        *)
(***************************************************************************)
\* Values written to register 1: display off, display on.
DisplayValues == {0, 64}

\* VdpRegisters::write_reg(1, value) between two frames
DisplayWriteReg ==
    \E value \in DisplayValues :
       /\ vdp.render_call.stage = "idle"
       /\ regs_get(regs, 1) # value
       /\ regs' = write_reg(regs, 1, value)
       /\ op' = "write_reg"
       /\ ret' = None
       /\ UNCHANGED <<dma, interrupts, vram, cram, vsram, vdp, hist>>

\* Vdp::tick between two frames, for the first MaxCycles cycles
DisplayTick ==
    /\ vdp.render_call.stage = "idle"
    /\ vdp.cycles_elapsed < MaxCycles
    /\ Becomes(Vdp_tick(Self, 0))
    /\ op' = "tick"
    /\ ret' = None
    /\ UNCHANGED hist

NextDisplay ==
    \/ DisplayWriteReg
    \/ DisplayTick
    \/ RenderFrameBegin
    \/ RenderPlaneTurn
    \/ RenderSpritesPass
    \/ RenderFrameEnd

SpecDisplay == InitRender /\ [][NextDisplay]_vars

\* A call of render_frame begins, returns without rendering, ends a frame.
RenderCallBegins == vdp.render_call.stage = "idle" /\ op' \in {"render_frame", "render_internal"}
RenderCallReturnsEarly == RenderCallBegins /\ vdp'.render_call.stage = "idle"
RenderCallEnds == vdp.render_call.stage = "post" /\ vdp'.render_call.stage = "idle"

\* C37: every call of render_frame on a renderer with rendering enabled
\* renders a frame (in particular when register 1 has the display bit set
\* at the call, whatever earlier calls saw), and the call that has rendered
\* increments frames_rendered by exactly one and records its timestamp.
RenderFrameCounts ==
    [][/\ (RenderCallBegins /\ vdp.renderer.render_enabled)
            => /\ vdp'.render_call.stage = "low_tiles"
               /\ vdp'.renderer.frames_rendered = vdp.renderer.frames_rendered
       /\ RenderCallEnds
            => /\ vdp'.renderer.frames_rendered = vdp.renderer.frames_rendered + 1
               /\ vdp'.renderer.last_frame_time = vdp.cycles_elapsed]_vars

\* C37 witness: with rendering enabled and the display bit of register 1
\* set, a call made after one frame was rendered has returned without
\* rendering: the renderer's mode still has the display off.
DisplayOnNotRendered ==
    /\ op = "render_frame"
    /\ vdp.render_call.stage = "idle"
    /\ hist.args = << >>
    /\ vdp.renderer.render_enabled
    /\ regs_get(regs, 1) = 64
    /\ ~vdp.renderer.video_mode.display_enabled
    /\ vdp.renderer.frames_rendered = 1

\* A call returns without rendering exactly when the mode the renderer took
\* from the registers at the last rendered frame (at first the default
\* mode, display on) has the display off; a rendered frame is counted once
\* with its timestamp.
RenderFrameFollowsStoredMode ==
    [][/\ RenderCallBegins
            => (vdp'.render_call.stage = "idle"
                   <=> ~vdp.renderer.video_mode.display_enabled)
       /\ RenderCallEnds
            => /\ vdp'.renderer.frames_rendered = vdp.renderer.frames_rendered + 1
               /\ vdp'.renderer.last_frame_time = vdp.cycles_elapsed]_vars

\* Once the renderer's mode has the display off no later call renders.
RenderStaysOff ==
    [][(vdp.render_call.stage = "idle" /\ ~vdp.renderer.video_mode.display_enabled)
          => /\ ~vdp'.renderer.video_mode.display_enabled
             /\ vdp'.renderer.frames_rendered = vdp.renderer.frames_rendered]_vars

\* A frame rendered after the clock advanced has recorded the time.
RenderTimeRecorded ==
    /\ op = "render_frame"
    /\ vdp.renderer.frames_rendered = 2
    /\ vdp.renderer.last_frame_time = MaxCycles


(***************************************************************************)
(* The register file's data-port DMA with register 23 rewritten at any     *)
(* time (VdpRegisters alone).                                              *)
(***************************************************************************)
\* Register writes: R23 = 0x40 selects the fill mode, R23 = 0xC0 no mode
\* (disabled), R19 = 2 a length of two words.
StallRegWrites == {<<23, 64>>, <<23, 192>>, <<19, 2>>}

\* VdpRegisters::write_reg
StallWriteReg ==
    \E w \in StallRegWrites :
       /\ regs' = write_reg(regs, w[1], w[2])
       /\ op' = "write_reg"
       /\ ret' = None
       /\ OnlyRegs

\* VdpRegisters::write_control_port (0x0000 twice: VRAM write at 0)
StallWriteControlPort ==
    /\ regs' = write_control_port(regs, 0)
    /\ op' = "write_control_port"
    /\ ret' = None
    /\ OnlyRegs

\* VdpRegisters::write_data_port; a transfer of length 0 wraps to 65535
\* words, which is not followed here.
StallWriteDataPort ==
    \E value \in FifoWords :
       /\ ~(regs.dma_active /\ regs.dma_mode # Desativado /\ regs.dma_length = 0)
       /\ regs' = write_data_port(regs, value)
       /\ op' = "write_data_port"
       /\ ret' = None
       /\ OnlyRegs

NextStall ==
    \/ StallWriteReg
    \/ StallWriteControlPort
    \/ StallWriteDataPort

SpecStall == Init /\ [][NextStall]_vars

\* C38: in the register file dma_active implies that the DMA mode is not
\* disabled, also after a write to register 23 while a DMA is active, and
\* each data-port write made while dma_active holds decrements the length
\* counter (so that dma_active is cleared after finitely many writes).
DmaActiveHasMode ==
    [][/\ regs'.dma_active => regs'.dma_mode # Desativado
       /\ (op' = "write_data_port" /\ regs.dma_active)
            => regs'.dma_length = (regs.dma_length + 65535) % 65536]_vars

\* C38 witness: register 23 was written 0xC0 while a DMA of two words was
\* active; a data-port write has then changed nothing but the data buffer:
\* the DMA is still active with its two words left and no mode.
DmaStalled ==
    /\ op = "write_data_port"
    /\ regs.dma_active
    /\ regs.dma_mode = Desativado
    /\ regs_get(regs, 23) = 192
    /\ regs.dma_length = 2
    /\ regs.fifo = << >>
    /\ regs.data_buffer \in FifoWords

\* While the mode is not changed under an active DMA the claim holds: a
\* data-port write of an active DMA with a mode counts one word down.
DmaCountsWithMode ==
    [][(op' = "write_data_port" /\ regs.dma_active /\ regs.dma_mode # Desativado)
          => /\ regs'.dma_length = regs.dma_length - 1
             /\ regs'.dma_active <=> regs'.dma_length # 0]_vars

\* An active DMA without a mode takes every data-port write and never ends.
DmaStallStays ==
    [][(op' = "write_data_port" /\ regs.dma_active /\ regs.dma_mode = Desativado)
          => \E value \in FifoWords : regs' = [regs EXCEPT !.data_buffer = value]]_vars


(***************************************************************************)
(* The video standard switched during a frame (the controller alone).  The *)
(* host calls tick a line at a time; on the first line and on line 262,    *)
(* the first one beyond an NTSC frame, it also stops at cycle 342, the     *)
(* first one beyond an NTSC line, and may switch the standard or reset.    *)
(***************************************************************************)
\* The lines on which the host acts.
ModeLines == {0, 262}

\* The cycles of those lines at which the host acts, besides the first.
ModeStops == {342}

ModeAwake == interrupts.v_counter \in ModeLines

\* The number of tick calls up to the next stop or the end of the line.
ModeBurst ==
    LET line == cycles_per_line(interrupts)
        h == interrupts.h_counter
        ahead == {s \in ModeStops : ModeAwake /\ s > h /\ s < line}
    IN IF ahead = {} THEN (IF h < line THEN line - h ELSE 1)
       ELSE (CHOOSE s \in ahead : \A t \in ahead : s <= t) - h

\* VdpInterruptController::tick, for the cycles of one PAL frame
ModeTick ==
    /\ interrupts.cycle_counter < 454 * 313
    /\ interrupts' = TickTimes(interrupts, regs, ModeBurst)
    /\ op' = "tick"
    /\ ret' = None
    /\ OnlyIrq

\* VdpInterruptController::set_video_mode
ModeSetVideoMode ==
    \E is_pal \in BOOLEAN :
       /\ ModeAwake
       /\ is_pal # interrupts.is_pal
       /\ interrupts' = set_video_mode(interrupts, is_pal)
       /\ op' = "set_video_mode"
       /\ ret' = None
       /\ OnlyIrq

\* VdpInterruptController::reset
ModeReset ==
    /\ ModeAwake
    /\ op # "reset"
    /\ interrupts' = Irq_reset(interrupts)
    /\ op' = "reset"
    /\ ret' = None
    /\ OnlyIrq

NextMode ==
    \/ ModeTick
    \/ ModeSetVideoMode
    \/ ModeReset

SpecMode == Init /\ [][NextMode]_vars

\* C39: in every state reached by tick, set_video_mode and reset the
\* horizontal counter is below the cycles per line of the current video
\* standard and the vertical counter below its number of lines.
CountersInRange ==
    /\ interrupts.h_counter < cycles_per_line(interrupts)
    /\ interrupts.v_counter < total_lines(interrupts)

\* C39 witness: a switch from PAL to NTSC at cycle 342 of line 262 has
\* left both counters at the bounds of the NTSC standard.
CountersBeyondNtsc ==
    /\ op = "set_video_mode"
    /\ ~interrupts.is_pal
    /\ interrupts.h_counter = 342
    /\ interrupts.v_counter = 262

\* set_video_mode leaves the counters as they are, and tick and reset bring
\* counters that are in range to counters in range.
CountersKeptInRange ==
    [][/\ op' = "set_video_mode"
            => /\ interrupts'.h_counter = interrupts.h_counter
               /\ interrupts'.v_counter = interrupts.v_counter
       /\ (op' \in {"tick", "reset"} /\ CountersInRange) => CountersInRange']_vars


\* C40: read_status leaves the pending queue (and all but the status) as it
\* is; pop_interrupt on a queue that holds an event returns its head,
\* removes exactly that event and changes no status bit; pop_interrupt on an
\* empty queue returns nothing and leaves the controller unchanged.
StatusAndPollingIndependent ==
    [][/\ op' = "read_status"
            => /\ interrupts'.pending = interrupts.pending
               /\ [interrupts' EXCEPT !.status = interrupts.status] = interrupts
               /\ ret' = Some(interrupts.status)
       /\ (op' = "pop_interrupt" /\ interrupts.pending # << >>)
            => /\ ret' = Some(Head(interrupts.pending))
               /\ interrupts'.pending = Tail(interrupts.pending)
               /\ interrupts'.status = interrupts.status
               /\ [interrupts' EXCEPT !.pending = interrupts.pending] = interrupts
       /\ (op' = "pop_interrupt" /\ interrupts.pending = << >>)
            => /\ ret' = None
               /\ interrupts' = interrupts]_vars

\* C40 witness: a status read that returned and cleared the VBlank flag has
\* left the three events of the queue in it.
StatusReadKeepsQueue ==
    /\ op = "read_status"
    /\ FlagContains(ret[1], I_VBLANK)
    /\ ~FlagContains(interrupts.status, I_VBLANK)
    /\ Len(interrupts.pending) = 3
    /\ Head(interrupts.pending).irq_type = VBlank

\* A pop has taken the overflow event and left the collision event, with
\* both flags still set.
PopTakesHead ==
    /\ op = "pop_interrupt"
    /\ ret # None
    /\ ret[1].irq_type = SpriteOverflow
    /\ Len(interrupts.pending) = 1
    /\ interrupts.pending[1].irq_type = SpriteCollision
    /\ FlagContains(interrupts.status, I_SPRITE_COLLISION)
    /\ FlagContains(interrupts.status, I_SPRITE_OVERFLOW)

\* A pop on the empty queue has returned nothing, with status flags set.
PopOnEmptyQueue ==
    /\ op = "pop_interrupt"
    /\ ret = None
    /\ interrupts.pending = << >>
    /\ interrupts.status # 0

====
